---- MODULE Spec2Model ----
(***************************************************************************)
(* Model of gr-digitizers' digitizer_block_impl: the acquisition           *)
(* lifecycle, the configuration setters, the streaming and rapid-block     *)
(* work() paths and the poller thread.                                     *)
(*                                                                         *)
(* The object (digitizer_block_impl with its application buffer and the    *)
(* device behind the driver interface) is one record, blk, whose fields    *)
(* carry the member names of the source.  Each member function is an       *)
(* operator from a record to a record, so that a function calling another  *)
(* (start -> initialize, configure, arm) is the composition the code       *)
(* performs.  A C++ exception in flight is the field exc.                  *)
(***************************************************************************)
EXTENDS Integers, Sequences, FiniteSets, TLC

(***************************************************************************)
(* Bounds of the model                                                     *)
(***************************************************************************)
\* error codes recorded in one behaviour (faults the environment injects)
MaxErrors == 2
\* chunks the streaming callback delivers in one behaviour
MaxChunks == 2
\* rapid-block completions the driver signals in one behaviour
MaxCompletions == 1
\* setter calls in one behaviour
MaxSetterCalls == 1
\* largest noutput_items the scheduler passes to a rapid-block work()
MaxNoutput == 2
MaxFaults == 1
\* samples fed to the analog and to the digital trigger detector in one run
MaxAnalogSamples == 4
MaxDigitalSamples == 6
MaxPushes == 6

(***************************************************************************)
(* Program constants                                                       *)
(***************************************************************************)
\* capacity of d_errors
ERROR_BUFFER_SIZE == 128
\* poll_work_function re-reads d_poller_state every n-th iteration
check_every_n_times == 10
\* constructor arguments ai_channels and di_ports of the modelled device
d_ai_channels == 2
d_ports == 1
\* size of the channel and port setting tables (digitizer_block_impl.h)
MAX_SUPPORTED_AI_CHANNELS == 16
MAX_SUPPORTED_PORTS == 8

NoError == "none"
Stopped == "Stopped"
Watchdog == "Watchdog"
Interrupted == "Interrupted"
DriverError == "DriverError"

VARIABLES
    blk,        \* the digitizer block, its application buffer and the device
    ctl_pc,     \* control thread: where a blocking lifecycle call stands
    ctl_op,     \* control thread: the call in progress or last completed
    ctl_ret,    \* control thread: how the last call ended
    work_pc,    \* scheduler thread: where the current work() call stands
    work_ec,    \* scheduler thread: error code the data-ready wait returned
    work_ret,   \* scheduler thread: result of the last work() call
    ctl_log,    \* control thread: calls made by that call, in order
    work_log,   \* scheduler thread: calls made by the current/last work()
    tags,       \* tags attached by the current/last work() call, in order
    nitems_written,  \* output stream offset, nitems_written(0)
    work_noutput,    \* scheduler thread: work_stream's local noutput_items
    running,    \* the flowgraph scheduler is calling work()
    poller,     \* the poller thread: alive, local state, check counter
    nset,       \* setter calls made so far
    det,        \* the trigger detector's run: samples fed to it, offsets it returned
    drained     \* the chunk id and lost count of every get_data_chunk() of a buffer run

vars == <<blk, ctl_pc, ctl_op, ctl_ret, ctl_log, work_pc, work_ec, work_ret, work_log,
          tags, nitems_written, work_noutput, running, poller, nset, det, drained>>

ctl_vars == <<ctl_pc, ctl_op, ctl_ret, ctl_log>>
work_vars == <<work_pc, work_ret, work_log, tags, nitems_written, work_noutput>>

(***************************************************************************)
(* Value types                                                             *)
(***************************************************************************)
\* voltages are in hundredths of a volt
channel_setting_t == [range |-> 200, offset |-> 0, actual_range |-> 200,
                      enabled |-> FALSE, dc_coupled |-> FALSE]

port_setting_t == [logic_level |-> 150, enabled |-> FALSE]

TRIGGER_NONE_SOURCE == "NONE"
TRIGGER_DIGITAL_SOURCE == "DI"

trigger_setting_t == [source |-> TRIGGER_NONE_SOURCE, threshold |-> 0,
                      direction |-> "RISING", pin_number |-> 0]

is_enabled(t) == t.source # TRIGGER_NONE_SOURCE
is_digital(t) == is_enabled(t) /\ t.source = TRIGGER_DIGITAL_SOURCE
is_analog(t) == is_enabled(t) /\ t.source # TRIGGER_DIGITAL_SOURCE

\* rapid_block_state_t, as constructed
rapid_block_state_t == [state |-> "WAITING", waveform_count |-> 0,
                        waveform_idx |-> 0, offset |-> 0, samples_left |-> 0]

\* app_buffer_t, as constructed
app_buffer_t == [queue |-> <<>>, lost |-> 0, errc |-> NoError,
                 shape |-> <<0, 0, 0, 0>>, pushed |-> 0]

(***************************************************************************)
(* Constructor                                                             *)
(***************************************************************************)
digitizer_block_impl(auto_arm) ==
    [d_samp_rate |-> 1,
     d_actual_samp_rate |-> 1,
     d_samples |-> 2,
     d_pre_samples |-> 1,
     d_nr_captures |-> 1,
     d_buffer_size |-> 2,
     d_nr_buffers |-> 2,
     d_driver_buffer_size |-> 2,
     d_acquisition_mode |-> "STREAMING",
     d_poll_rate |-> 1,
     d_downsampling_mode |-> "NONE",
     d_downsampling_factor |-> 1,
     d_channel_settings |-> [i \in 0 .. MAX_SUPPORTED_AI_CHANNELS - 1 |-> channel_setting_t],
     d_port_settings |-> [i \in 0 .. MAX_SUPPORTED_PORTS - 1 |-> port_setting_t],
     d_trigger_settings |-> trigger_setting_t,
     d_app_buffer |-> app_buffer_t,
     d_initialized |-> FALSE,
     d_armed |-> FALSE,
     d_auto_arm |-> auto_arm,
     d_trigger_once |-> FALSE,
     d_was_triggered_once |-> FALSE,
     d_timebase_published |-> FALSE,
     d_data_rdy |-> FALSE,
     d_data_rdy_errc |-> NoError,
     d_trigger_state |-> 0,
     d_errors |-> <<>>,
     d_poller_state |-> "IDLE",
     d_poller_joinable |-> FALSE,
     d_configure_exception_message |-> "",
     d_bstate |-> rapid_block_state_t,
     \* the device behind the driver interface
     drv_open |-> FALSE,
     drv_armed |-> FALSE,
     drv_busy |-> FALSE,
     drv_completions |-> 0, drv_faults |-> 0, h_arm_pending |-> FALSE,
     \* tags added by the member function being executed, in order
     newtags |-> <<>>,
     \* calls made by the member function being executed, in order
     log |-> <<>>,
     \* error code returned by the last driver call, value returned by the
     \* member function ("" when it returns nothing)
     ec |-> NoError,
     ret |-> "",
     \* value returned by work_stream / work_rapid_block
     retval |-> 0,
     \* exception in flight ("" when none)
     exc |-> ""]

(***************************************************************************)
(* Helpers                                                                 *)
(***************************************************************************)
Log(s, e) == [s EXCEPT !.log = Append(@, e)]

Throw(s, what) == [s EXCEPT !.exc = what]

\* d_errors.push(ec): a bounded history that drops its oldest entry
add_error_code(s, ec) ==
    [s EXCEPT !.d_errors = IF Len(@) < ERROR_BUFFER_SIZE
                           THEN Append(@, ec)
                           ELSE Append(Tail(@), ec)]

RECURSIVE CountEnabled(_, _)
CountEnabled(f, n) ==
    IF n = 0 THEN 0
    ELSE CountEnabled(f, n - 1) + (IF f[n - 1].enabled THEN 1 ELSE 0)

get_enabled_aichan_count(s) ==
    CountEnabled(s.d_channel_settings, MAX_SUPPORTED_AI_CHANNELS)

get_enabled_diport_count(s) ==
    CountEnabled(s.d_port_settings, MAX_SUPPORTED_PORTS)

get_samp_rate(s) == s.d_actual_samp_rate

get_pre_trigger_samples_with_downsampling(s) ==
    IF s.d_downsampling_mode # "NONE"
    THEN s.d_pre_samples \div s.d_downsampling_factor
    ELSE s.d_pre_samples

get_post_trigger_samples_with_downsampling(s) ==
    IF s.d_downsampling_mode # "NONE"
    THEN s.d_samples \div s.d_downsampling_factor
    ELSE s.d_samples

get_block_size(s) == s.d_samples + s.d_pre_samples

get_block_size_with_downsampling(s) ==
    get_pre_trigger_samples_with_downsampling(s)
        + get_post_trigger_samples_with_downsampling(s)

\* seconds per output sample, as the pair <<numerator, denominator>>
get_timebase_with_downsampling(s) ==
    IF s.d_downsampling_mode = "NONE"
    THEN <<1, s.d_actual_samp_rate>>
    ELSE <<s.d_downsampling_factor, s.d_actual_samp_rate>>

(***************************************************************************)
(* Configuration setters                                                   *)
(***************************************************************************)
set_samples(s, samples, pre_samples) ==
    IF samples < 1 THEN Throw(s, "invalid_argument")
    ELSE IF pre_samples < 0 THEN Throw(s, "invalid_argument")
    ELSE [s EXCEPT !.d_samples = samples,
                   !.d_pre_samples = pre_samples,
                   !.d_buffer_size = samples + pre_samples]

set_samp_rate(s, rate) ==
    IF rate <= 0 THEN Throw(s, "invalid_argument")
    ELSE [s EXCEPT !.d_samp_rate = rate, !.d_actual_samp_rate = rate]

\* gr::block::set_output_multiple rejects a multiple below one
set_output_multiple(s, multiple) ==
    IF multiple < 1 THEN Throw(s, "invalid_argument") ELSE s

set_buffer_size(s, buffer_size) ==
    IF buffer_size < 0 THEN Throw(s, "invalid_argument")
    ELSE set_output_multiple([s EXCEPT !.d_buffer_size = buffer_size], buffer_size)

set_nr_buffers(s, nr_buffers) ==
    IF nr_buffers < 1 THEN Throw(s, "invalid_argument")
    ELSE [s EXCEPT !.d_nr_buffers = nr_buffers]

set_driver_buffer_size(s, driver_buffer_size) ==
    IF driver_buffer_size < 1 THEN Throw(s, "invalid_argument")
    ELSE [s EXCEPT !.d_driver_buffer_size = driver_buffer_size]

set_auto_arm(s, auto_arm) == [s EXCEPT !.d_auto_arm = auto_arm]

set_trigger_once(s, once) == [s EXCEPT !.d_trigger_once = once]

\* set_streaming storing the poll rate before it checks it
set_streaming_stores_first(s, poll_rate) ==
    IF poll_rate < 0 THEN Throw([s EXCEPT !.d_poll_rate = poll_rate], "invalid_argument")
    ELSE [s EXCEPT !.d_acquisition_mode = "STREAMING",
                   !.d_poll_rate = poll_rate,
                   !.d_nr_captures = 1]

set_streaming(s, poll_rate) ==
    IF poll_rate < 0 THEN Throw(s, "invalid_argument")
    ELSE [s EXCEPT !.d_acquisition_mode = "STREAMING",
                   !.d_poll_rate = poll_rate,
                   !.d_nr_captures = 1]

set_rapid_block(s, nr_captures) ==
    IF nr_captures < 1 THEN Throw(s, "invalid_argument")
    ELSE [s EXCEPT !.d_acquisition_mode = "RAPID_BLOCK",
                   !.d_nr_captures = nr_captures]

\* set_downsampling keeping the caller's factor in mode NONE
set_downsampling_keeps_factor(s, mode, downsample_factor) ==
    IF mode # "NONE" /\ downsample_factor < 2 THEN Throw(s, "invalid_argument")
    ELSE [s EXCEPT !.d_downsampling_mode = mode,
                   !.d_downsampling_factor = downsample_factor]

set_downsampling(s, mode, downsample_factor) ==
    IF mode = "NONE"
    THEN [s EXCEPT !.d_downsampling_mode = mode, !.d_downsampling_factor = 1]
    ELSE IF downsample_factor < 2 THEN Throw(s, "invalid_argument")
    ELSE [s EXCEPT !.d_downsampling_mode = mode,
                   !.d_downsampling_factor = downsample_factor]

\* std::toupper(c) - 'A' for the characters the model draws ids from
Letters == <<"A", "B", "C", "D", "E", "F", "G", "H", "I", "J", "K", "L", "M",
             "N", "O", "P", "Q", "R", "S", "T", "U", "V", "W", "X", "Y", "Z">>

CharMinusA(c) ==
    IF \E k \in 1 .. Len(Letters) : Letters[k] = c
    THEN (CHOOSE k \in 1 .. Len(Letters) : Letters[k] = c) - 1
    ELSE -1

\* the characters of the ids the model uses (id.length(), id[k])
Chars(id) ==
    CASE id = "" -> <<>>
      [] id = "AB" -> <<"A", "B">>
      [] id = "port0" -> <<"p", "o", "r", "t", "0">>
      [] id = "port8" -> <<"p", "o", "r", "t", "8">>
      [] id = "port9" -> <<"p", "o", "r", "t", "9">>
      [] id = "portX" -> <<"p", "o", "r", "t", "X">>
      [] OTHER -> <<id>>

\* the result is the index, or -1 when the function throws invalid_argument
convert_to_aichan_idx(id) ==
    LET c == Chars(id) IN
    IF Len(c) # 1 THEN -1
    ELSE IF CharMinusA(c[1]) < 0 \/ CharMinusA(c[1]) > MAX_SUPPORTED_AI_CHANNELS
         THEN -1
         ELSE CharMinusA(c[1])

\* a write through operator[] of the std::array: an index past the end is
\* outside the table and leaves the table as it is
TableSet(tbl, idx, val) ==
    IF idx \in DOMAIN tbl THEN [tbl EXCEPT ![idx] = val] ELSE tbl

set_aichan(s, id, enabled, range, dc_coupling, range_offset) ==
    LET idx == convert_to_aichan_idx(id) IN
    IF idx < 0 THEN Throw(s, "invalid_argument")
    ELSE [s EXCEPT !.d_channel_settings =
            TableSet(@, idx,
                IF idx \in DOMAIN @
                THEN [@[idx] EXCEPT !.range = range, !.offset = range_offset,
                                    !.enabled = enabled, !.dc_coupled = dc_coupling]
                ELSE channel_setting_t)]

set_aichan_range(s, id, range, range_offset) ==
    LET idx == convert_to_aichan_idx(id) IN
    IF idx < 0 THEN Throw(s, "invalid_argument")
    ELSE [s EXCEPT !.d_channel_settings =
            TableSet(@, idx,
                IF idx \in DOMAIN @
                THEN [@[idx] EXCEPT !.range = range, !.offset = range_offset]
                ELSE channel_setting_t)]

set_aichan_trigger(s, id, direction, threshold) ==
    IF convert_to_aichan_idx(id) < 0 THEN Throw(s, "invalid_argument")
    ELSE [s EXCEPT !.d_trigger_settings =
            [source |-> id, threshold |-> threshold,
             direction |-> direction, pin_number |-> 0]]

Digits == <<"0", "1", "2", "3", "4", "5", "6", "7", "8", "9">>

\* boost::lexical_cast<int>(id[4]) throws unless the character is a digit;
\* the result is the index, or -1 when the function throws
convert_to_port_idx(id) ==
    LET c == Chars(id) IN
    IF Len(c) # 5 THEN -1
    ELSE IF ~ \E d \in 0 .. 9 : Digits[d + 1] = c[5] THEN -1
    ELSE LET idx == CHOOSE d \in 0 .. 9 : Digits[d + 1] = c[5] IN
         IF idx < 0 \/ idx > MAX_SUPPORTED_PORTS THEN -1 ELSE idx

set_diport(s, id, enabled, thresh_voltage) ==
    LET port_number == convert_to_port_idx(id) IN
    IF port_number < 0 THEN Throw(s, "invalid_argument")
    ELSE [s EXCEPT !.d_port_settings =
            TableSet(@, port_number,
                [logic_level |-> thresh_voltage, enabled |-> enabled])]

set_di_trigger(s, pin, direction) ==
    [s EXCEPT !.d_trigger_settings =
        [source |-> TRIGGER_DIGITAL_SOURCE, threshold |-> 0,
         direction |-> direction, pin_number |-> pin]]

disable_triggers(s) ==
    [s EXCEPT !.d_trigger_settings.source = TRIGGER_NONE_SOURCE]

(***************************************************************************)
(* Application buffer (app_buffer_t)                                       *)
(***************************************************************************)
\* initialize(n_analog, n_digital, size, nr_buffers): clears the ring, the
\* lost count and the error condition
app_buffer_initialize(s, n_analog, n_digital, size, nr_buffers) ==
    [s EXCEPT !.d_app_buffer =
        [queue |-> <<>>, lost |-> 0, errc |-> NoError,
         shape |-> <<n_analog, n_digital, size, nr_buffers>>, pushed |-> @.pushed]]

\* push(chunk) without the count of the chunk it overwrites
app_buffer_push_uncounted(s, chunk) ==
    LET b == s.d_app_buffer IN
    [s EXCEPT !.d_app_buffer =
        IF Len(b.queue) >= b.shape[4]
        THEN [b EXCEPT !.queue = Append(Tail(b.queue), chunk), !.pushed = @ + 1]
        ELSE [b EXCEPT !.queue = Append(b.queue, chunk), !.pushed = @ + 1]]

\* push(chunk): enqueue; when full, overwrite the oldest and count it lost
app_buffer_push(s, chunk) ==
    LET b == s.d_app_buffer IN
    [s EXCEPT !.d_app_buffer =
        IF Len(b.queue) >= b.shape[4]
        THEN [b EXCEPT !.queue = Append(Tail(b.queue), chunk),
                       !.lost = @ + 1, !.pushed = @ + 1]
        ELSE [b EXCEPT !.queue = Append(b.queue, chunk), !.pushed = @ + 1]]

\* notify_data_ready(ec): sets (or, with an empty code, clears) the error
\* condition the consumer is woken with
app_buffer_notify_data_ready(s, ec) == [s EXCEPT !.d_app_buffer.errc = ec]

\* wait_data_ready() returns once an error is pending or a chunk is queued
app_buffer_data_ready(s) ==
    s.d_app_buffer.errc # NoError \/ s.d_app_buffer.queue # <<>>

app_buffer_wait_data_ready(s) == s.d_app_buffer.errc

\* get_data_chunk(): consumes the oldest chunk; its result, the lost count
\* accumulated since the last call, is read before the call as lost
app_buffer_get_data_chunk(s) ==
    Log([s EXCEPT !.d_app_buffer.queue = Tail(@), !.d_app_buffer.lost = 0],
        "get_data_chunk")

(***************************************************************************)
(* Rapid-block data-ready condition of the block                           *)
(***************************************************************************)
notify_data_ready(s, ec) ==
    LET r == IF ec # NoError THEN add_error_code(s, ec) ELSE s IN
    [r EXCEPT !.d_data_rdy = TRUE, !.d_data_rdy_errc = ec]

wait_data_ready(s) == s.d_data_rdy_errc

clear_data_ready(s) ==
    [s EXCEPT !.d_data_rdy = FALSE, !.d_data_rdy_errc = NoError]

(***************************************************************************)
(* Driver interface (pure virtual in the block; the device is modelled     *)
(* by drv_open and drv_armed; ok is whether the device accepts the call)   *)
(***************************************************************************)
Returns(s, ec) == [s EXCEPT !.ec = ec]

\* the device refuses a call it could have served
Fault(s) == [s EXCEPT !.drv_faults = @ + 1]

driver_initialize(s, ok) ==
    IF ok THEN Returns(Log([s EXCEPT !.drv_open = TRUE], "driver_initialize"), NoError)
    ELSE Returns(Log(Fault(s), "driver_initialize"), DriverError)

driver_configure(s, ok) ==
    IF ok /\ s.drv_open
    THEN Returns(Log([s EXCEPT !.d_actual_samp_rate = s.d_samp_rate,
                               !.d_channel_settings =
                                   [i \in DOMAIN s.d_channel_settings |->
                                       [s.d_channel_settings[i] EXCEPT
                                           !.actual_range = s.d_channel_settings[i].range]]],
                     "driver_configure"), NoError)
    ELSE Returns(Log(IF s.drv_open THEN Fault(s) ELSE s, "driver_configure"), DriverError)

driver_arm(s, ok) ==
    IF ok /\ s.drv_open
    THEN Returns(Log([s EXCEPT !.drv_armed = TRUE, !.drv_busy = TRUE], "driver_arm"), NoError)
    ELSE Returns(Log(IF s.drv_open THEN Fault(s) ELSE s, "driver_arm"), DriverError)

driver_disarm(s, ok) ==
    IF ok /\ s.drv_open
    THEN Returns(Log([s EXCEPT !.drv_armed = FALSE, !.drv_busy = FALSE], "driver_disarm"), NoError)
    ELSE Returns(Log(IF s.drv_open THEN Fault(s) ELSE s, "driver_disarm"), DriverError)

driver_close(s, ok) ==
    IF ok
    THEN Returns(Log([s EXCEPT !.drv_open = FALSE, !.drv_armed = FALSE,
                               !.drv_busy = FALSE], "driver_close"), NoError)
    ELSE Returns(Log(IF s.drv_open THEN Fault(s) ELSE s, "driver_close"), DriverError)

(***************************************************************************)
(* Poller state requests                                                   *)
(***************************************************************************)
start_poll_thread(s) ==
    IF ~s.d_poller_joinable
    THEN [s EXCEPT !.d_poller_state = "IDLE", !.d_poller_joinable = TRUE]
    ELSE s

transit_poll_thread_to_running(s) == [s EXCEPT !.d_poller_state = "RUNNING"]

\* a transition to IDLE the requester makes itself, without the poller's
\* acknowledgement
transit_poll_thread_to_idle_unacknowledged(s) ==
    IF s.d_poller_state = "EXIT" THEN s
    ELSE [s EXCEPT !.d_poller_state = "IDLE"]

\* transit_poll_thread_to_idle up to its wait: the request
transit_poll_thread_to_idle(s) ==
    IF s.d_poller_state = "EXIT" THEN s
    ELSE [s EXCEPT !.d_poller_state = "PEND_IDLE"]

\* stop_poll_thread up to its wait: the request
stop_poll_thread(s) ==
    IF ~s.d_poller_joinable THEN s
    ELSE [s EXCEPT !.d_poller_state = "PEND_EXIT"]

(***************************************************************************)
(* Lifecycle                                                               *)
(***************************************************************************)
\* initialize() without its check of d_initialized
initialize_again(s, ok) ==
    LET r == driver_initialize(s, ok) IN
    IF r.ec # NoError
    THEN Throw(add_error_code(r, r.ec), "runtime_error")
    ELSE [r EXCEPT !.d_initialized = TRUE]

initialize(s, ok) ==
    IF s.d_initialized THEN s
    ELSE LET r == driver_initialize(s, ok) IN
         IF r.ec # NoError
         THEN Throw(add_error_code(r, r.ec), "runtime_error")
         ELSE [r EXCEPT !.d_initialized = TRUE]

\* configure() without its check of d_armed
configure_while_armed(s, ok) ==
    IF ~s.d_initialized THEN Throw(s, "runtime_error")
    ELSE LET r == driver_configure(s, ok) IN
         IF r.ec # NoError
         THEN Throw(add_error_code(r, r.ec), "runtime_error")
         ELSE app_buffer_initialize(r, get_enabled_aichan_count(r),
                  get_enabled_diport_count(r), r.d_buffer_size, r.d_nr_buffers)

configure(s, ok) ==
    IF ~s.d_initialized THEN Throw(s, "runtime_error")
    ELSE IF s.d_armed THEN Throw(s, "runtime_error")
    ELSE LET r == driver_configure(s, ok) IN
         IF r.ec # NoError
         THEN Throw(add_error_code(r, r.ec), "runtime_error")
         ELSE app_buffer_initialize(r, get_enabled_aichan_count(r),
                  get_enabled_diport_count(r), r.d_buffer_size, r.d_nr_buffers)

\* arm() marking the block armed before it asks the driver
arm_marks_first(s, ok) ==
    IF s.d_armed THEN s
    ELSE LET r == driver_arm([s EXCEPT !.d_armed = TRUE,
                                       !.d_timebase_published = FALSE], ok) IN
         IF r.ec # NoError
         THEN Throw(add_error_code(r, r.ec), "runtime_error")
         ELSE LET a == app_buffer_notify_data_ready(r, NoError)
              IN IF a.d_acquisition_mode = "STREAMING"
                 THEN transit_poll_thread_to_running(a)
                 ELSE a

arm(s, ok) ==
    IF s.d_armed THEN s
    ELSE LET r == driver_arm(s, ok) IN
         IF r.ec # NoError
         THEN Throw(add_error_code(r, r.ec), "runtime_error")
         ELSE LET a == app_buffer_notify_data_ready(
                           [r EXCEPT !.d_armed = TRUE,
                                     !.d_timebase_published = FALSE], NoError)
              IN IF a.d_acquisition_mode = "STREAMING"
                 THEN transit_poll_thread_to_running(a)
                 ELSE a

\* disarm() blocks inside transit_poll_thread_to_idle until the poller has
\* acknowledged IDLE; disarm_request is the part before that wait,
\* disarm_finish the part after it
disarm_waits(s) ==
    s.d_armed /\ s.d_acquisition_mode = "STREAMING" /\ s.d_poller_state # "EXIT"

disarm_request(s) ==
    IF s.d_armed /\ s.d_acquisition_mode = "STREAMING"
    THEN transit_poll_thread_to_idle(s)
    ELSE s

disarm_finish(s, ok) ==
    LET r == driver_disarm(s, ok) IN
    [(IF r.ec # NoError THEN add_error_code(r, r.ec) ELSE r) EXCEPT !.d_armed = FALSE]

\* disarm() without its check of d_armed
disarm_unguarded(s, ok) == disarm_finish(disarm_request(s), ok)

\* disarm() when it does not have to wait for the poller
disarm(s, ok) ==
    IF ~s.d_armed THEN s ELSE disarm_finish(disarm_request(s), ok)

close(s, ok) ==
    LET r == driver_close(s, ok) IN
    [(IF r.ec # NoError THEN add_error_code(r, r.ec) ELSE r) EXCEPT !.d_initialized = FALSE]

\* the body of start()'s try block, then its catch
start_try(s, ok1, ok2, ok3) ==
    LET a == initialize(s, ok1) IN
    IF a.exc # "" THEN a
    ELSE LET b == configure(a, ok2) IN
         IF b.exc # "" THEN b
         ELSE LET c == [b EXCEPT !.d_was_triggered_once = FALSE,
                                 !.d_data_rdy_errc = NoError,
                                 !.d_data_rdy = FALSE]
                  d == IF c.d_acquisition_mode = "STREAMING"
                       THEN start_poll_thread(c) ELSE c
              IN IF d.d_auto_arm /\ d.d_acquisition_mode = "STREAMING"
                 THEN arm(d, ok3)
                 ELSE d

start(s, ok1, ok2, ok3) ==
    LET r == start_try(s, ok1, ok2, ok3) IN
    IF r.exc # ""
    THEN [r EXCEPT !.d_configure_exception_message = r.exc, !.exc = "", !.ret = "false"]
    ELSE [r EXCEPT !.ret = "true"]

\* stop() up to its first blocking call.  It returns at once on a block that
\* is not initialized; on an armed block it notifies Stopped and disarms
stop_notify(s) ==
    IF s.d_armed THEN notify_data_ready(s, Stopped) ELSE s

\* stop() after its disarm(): the request to the poller, when there is one
stop_waits(s) == s.d_acquisition_mode = "STREAMING" /\ s.d_poller_joinable

stop_request(s) ==
    IF s.d_acquisition_mode = "STREAMING" THEN stop_poll_thread(s) ELSE s

\* stop() after d_poller.join(), or when there was no thread to join
stop_finish(s, joined) ==
    [s EXCEPT !.d_poller_joinable = IF joined THEN FALSE ELSE @,
              !.d_configure_exception_message = "",
              !.ret = "true"]

(***************************************************************************)
(* Actions of the control thread                                           *)
(***************************************************************************)
\* the call whose outcome is s made an arm() that took effect
ArmTookEffect(s) ==
    /\ s.d_armed
    /\ \E k \in 1 .. Len(s.log) : s.log[k] = "driver_arm"

\* the block a finished step leaves: the step's transient outcome is dropped.
\* h_arm_pending is history: an arm() has taken effect and no work() call has
\* returned a positive count since
Clean(s) ==
    [s EXCEPT !.log = <<>>, !.newtags = <<>>, !.ec = NoError, !.exc = "",
              !.ret = "", !.retval = 0,
              !.h_arm_pending = IF ArmTookEffect(s) THEN TRUE
                                ELSE IF s.retval > 0 THEN FALSE ELSE @]

\* every error code of a behaviour, recorded or still pending in the
\* application buffer, fits the bound
Bounded(s) ==
    /\ Len(s.d_errors) + (IF s.d_app_buffer.errc # NoError THEN 1 ELSE 0) <= MaxErrors
    /\ s.drv_faults <= MaxFaults

\* the same for the Watchdog recovery of work(), which has recorded the
\* error the application buffer still holds when its arm() fails
BoundedRing(s) ==
    /\ Len(s.d_errors) <= MaxErrors
    /\ s.drv_faults <= MaxFaults

Outcome(r) ==
    IF r.exc # "" THEN "throw" ELSE IF r.ret # "" THEN r.ret ELSE "ok"

CallInitialize ==
    /\ ctl_pc = "idle"
    /\ \E ok \in BOOLEAN :
        LET r == initialize(blk, ok) IN
        /\ Bounded(r) /\ blk' = Clean(r) /\ ctl_pc' = "idle"
        /\ ctl_op' = "initialize" /\ ctl_ret' = Outcome(r) /\ ctl_log' = r.log
    /\ UNCHANGED <<drained, det, work_vars, work_ec, running, poller, nset>>

CallConfigure ==
    /\ ctl_pc = "idle"
    /\ \E ok \in BOOLEAN :
        LET r == configure(blk, ok) IN
        /\ Bounded(r) /\ blk' = Clean(r) /\ ctl_pc' = "idle"
        /\ ctl_op' = "configure" /\ ctl_ret' = Outcome(r) /\ ctl_log' = r.log
    /\ UNCHANGED <<drained, det, work_vars, work_ec, running, poller, nset>>

CallArm ==
    /\ ctl_pc = "idle"
    /\ \E ok \in BOOLEAN :
        LET r == arm(blk, ok) IN
        /\ Bounded(r) /\ blk' = Clean(r) /\ ctl_pc' = "idle"
        /\ ctl_op' = "arm" /\ ctl_ret' = Outcome(r) /\ ctl_log' = r.log
    /\ UNCHANGED <<drained, det, work_vars, work_ec, running, poller, nset>>

CallClose ==
    /\ ctl_pc = "idle"
    /\ \E ok \in BOOLEAN :
        LET r == close(blk, ok) IN
        /\ Bounded(r) /\ blk' = Clean(r) /\ ctl_pc' = "idle"
        /\ ctl_op' = "close" /\ ctl_ret' = Outcome(r) /\ ctl_log' = r.log
    /\ UNCHANGED <<drained, det, work_vars, work_ec, running, poller, nset>>

\* disarm(): returns at once, or blocks until the poller acknowledges IDLE
CallDisarm ==
    /\ ctl_pc = "idle"
    /\ IF disarm_waits(blk)
       THEN LET r == disarm_request(blk) IN
            /\ blk' = Clean(r) /\ ctl_pc' = "disarm_wait"
            /\ ctl_op' = "disarm" /\ ctl_ret' = "none" /\ ctl_log' = <<>>
       ELSE \E ok \in BOOLEAN :
            LET r == disarm(blk, ok) IN
            /\ Bounded(r) /\ blk' = Clean(r) /\ ctl_pc' = "idle"
            /\ ctl_op' = "disarm" /\ ctl_ret' = Outcome(r) /\ ctl_log' = r.log
    /\ UNCHANGED <<drained, det, work_vars, work_ec, running, poller, nset>>

\* the poller thread start() has created, if it created one
Spawned(s, r) ==
    IF r.d_poller_joinable /\ ~s.d_poller_joinable
    THEN [alive |-> TRUE, state |-> "IDLE", counter |-> check_every_n_times]
    ELSE poller

CallStart ==
    /\ ctl_pc = "idle"
    /\ \E ok1, ok2, ok3 \in BOOLEAN :
        LET r == start(blk, ok1, ok2, ok3) IN
        /\ Bounded(r) /\ blk' = Clean(r) /\ ctl_pc' = "idle"
        /\ ctl_op' = "start" /\ ctl_ret' = Outcome(r) /\ ctl_log' = r.log
        /\ poller' = Spawned(blk, r)
        /\ running' = (r.ret = "true")
    /\ UNCHANGED <<drained, det, work_vars, work_ec, nset>>

\* stop() from its notification on, given the block after its disarm()
StopAfterDisarm(r, log) ==
    IF stop_waits(r)
    THEN /\ blk' = Clean(stop_request(r)) /\ ctl_pc' = "stop_join"
         /\ ctl_op' = "stop" /\ ctl_ret' = "none" /\ ctl_log' = log \o r.log
    ELSE LET f == stop_finish(stop_request(r), FALSE) IN
         /\ blk' = Clean(f) /\ ctl_pc' = "idle"
         /\ ctl_op' = "stop" /\ ctl_ret' = Outcome(f) /\ ctl_log' = log \o f.log

\* stop(): the flowgraph is stopping, the scheduler starts no further work()
\* call; a call in progress goes on
CallStop ==
    /\ ctl_pc = "idle"
    /\ IF ~blk.d_initialized
       THEN /\ blk' = blk /\ ctl_pc' = "idle"
            /\ ctl_op' = "stop" /\ ctl_ret' = "true" /\ ctl_log' = <<>>
       ELSE LET n == stop_notify(blk) IN
            /\ Bounded(n)
            /\ IF disarm_waits(n)
               THEN /\ blk' = Clean(disarm_request(n)) /\ ctl_pc' = "disarm_wait"
                    /\ ctl_op' = "stop" /\ ctl_ret' = "none" /\ ctl_log' = <<>>
               ELSE \E ok \in BOOLEAN :
                    LET r == disarm(n, ok) IN
                    /\ Bounded(r)
                    /\ StopAfterDisarm(r, <<>>)
    /\ running' = FALSE
    /\ UNCHANGED <<drained, det, work_vars, work_ec, poller, nset>>

\* the wait inside transit_poll_thread_to_idle returns: the poller state is
\* IDLE; disarm() goes on, and so does the stop() that called it
DisarmWake ==
    /\ ctl_pc = "disarm_wait"
    /\ blk.d_poller_state = "IDLE"
    /\ \E ok \in BOOLEAN :
        LET r == disarm_finish(blk, ok) IN
        /\ Bounded(r)
        /\ IF ctl_op = "stop"
           THEN StopAfterDisarm(r, ctl_log)
           ELSE /\ blk' = Clean(r) /\ ctl_pc' = "idle"
                /\ ctl_op' = "disarm" /\ ctl_ret' = Outcome(r)
                /\ ctl_log' = ctl_log \o r.log
    /\ UNCHANGED <<drained, det, work_vars, work_ec, running, poller, nset>>

\* d_poller.join() returns: the poller thread has left poll_work_function
StopJoin ==
    /\ ctl_pc = "stop_join"
    /\ ~poller.alive
    /\ LET f == stop_finish(blk, TRUE) IN
        /\ blk' = Clean(f) /\ ctl_pc' = "idle"
        /\ ctl_op' = "stop" /\ ctl_ret' = Outcome(f) /\ ctl_log' = ctl_log
    /\ UNCHANGED <<drained, det, work_vars, work_ec, running, poller, nset>>

(***************************************************************************)
(* The poller thread: one iteration of poll_work_function's loop           *)
(***************************************************************************)
\* the chunk the streaming callback deposits: one buffer per channel and port
\* the application buffer was shaped for, numbered in arrival order
streaming_chunk(s) ==
    LET shape == s.d_app_buffer.shape IN
    [id |-> s.d_app_buffer.pushed + 1,
     analog |-> [k \in 1 .. shape[1] |-> [j \in 1 .. shape[3] |-> 0]],
     digital |-> [k \in 1 .. shape[2] |-> [j \in 1 .. shape[3] |-> 0]],
     status |-> [i \in 0 .. d_ai_channels - 1 |-> 0]]

\* what driver_poll() and the watchdog comparison do to the block in one
\* RUNNING iteration: the streaming callback may deliver a chunk, the poll
\* may fail, the estimated sample rate may be below the threshold
poll_running(s, delivered, failed, low_rate) ==
    LET a == IF delivered THEN app_buffer_push(s, streaming_chunk(s)) ELSE s
        b == IF failed THEN app_buffer_notify_data_ready(Fault(a), DriverError) ELSE a
    IN IF low_rate THEN app_buffer_notify_data_ready(b, Watchdog) ELSE b

\* the local copy of d_poller_state after the lazy re-read
poller_read(p, s) ==
    IF p.counter + 1 >= check_every_n_times
    THEN [p EXCEPT !.state = s.d_poller_state, !.counter = 0]
    ELSE [p EXCEPT !.counter = @ + 1]

\* an iteration that touches nothing shared, and the iterations like it
\* that follow: the next iteration is the one that re-reads d_poller_state
Sleep(p) == [p EXCEPT !.counter = check_every_n_times - 1]

PollerIterate ==
    /\ poller.alive
    /\ LET p == poller_read(poller, blk) IN
       CASE p.state = "RUNNING" ->
              \E delivered, failed, low_rate \in BOOLEAN :
                LET r == poll_running(blk, delivered, failed, low_rate) IN
                /\ delivered => (blk.drv_armed /\ blk.d_app_buffer.pushed < MaxChunks)
                /\ (failed \/ low_rate) => Bounded(r)
                /\ blk' = r
                /\ poller' = IF delivered \/ failed \/ low_rate THEN p ELSE Sleep(p)
         [] p.state = "PEND_IDLE" ->
                /\ blk' = [blk EXCEPT !.d_poller_state = "IDLE"]
                /\ poller' = [p EXCEPT !.state = "IDLE"]
         [] p.state = "PEND_EXIT" ->
                /\ blk' = [blk EXCEPT !.d_poller_state = "EXIT"]
                /\ poller' = [p EXCEPT !.state = "EXIT", !.alive = FALSE]
         [] OTHER ->
                /\ blk' = blk
                /\ poller' = Sleep(p)
    /\ UNCHANGED <<drained, det, ctl_vars, work_vars, work_ec, running, nset>>

\* the chunks the streaming callback may deposit: the samples rise or fall
\* through the trigger threshold (analog) and through pin 3 (digital), the
\* status words are clear or differ from channel to channel
StreamingChunks(s) ==
    LET shape == s.d_app_buffer.shape
        edge(lo, hi, up) == [j \in 1 .. shape[3] |->
                               IF (j = 1) = up THEN lo ELSE hi]
    IN {[id |-> s.d_app_buffer.pushed + 1,
         analog |-> [k \in 1 .. shape[1] |-> edge(48, 52, aup)],
         digital |-> [k \in 1 .. shape[2] |-> edge(0, 8, dup)],
         status |-> [i \in 0 .. d_ai_channels - 1 |-> IF flagged THEN i + 1 ELSE 0]] :
        aup \in BOOLEAN, dup \in BOOLEAN, flagged \in BOOLEAN}

\* a RUNNING iteration in which the streaming callback delivers a chunk
PollerDelivers ==
    /\ poller.alive
    /\ LET p == poller_read(poller, blk) IN
       /\ p.state = "RUNNING"
       /\ blk.drv_armed /\ blk.d_app_buffer.pushed < MaxChunks
       /\ \E chunk \in StreamingChunks(blk) : blk' = app_buffer_push(blk, chunk)
       /\ poller' = p
    /\ UNCHANGED <<drained, det, ctl_vars, work_vars, work_ec, running, nset>>

(***************************************************************************)
(* Rapid-block completion: the driver calls notify_data_ready              *)
(***************************************************************************)
DriverNotify ==
    /\ blk.drv_armed /\ blk.drv_busy
    /\ blk.d_acquisition_mode = "RAPID_BLOCK"
    /\ blk.drv_completions < MaxCompletions
    /\ \E ec \in {NoError, DriverError} :
        LET r == notify_data_ready(IF ec = NoError THEN blk ELSE Fault(blk), ec) IN
        /\ Bounded(r)
        /\ blk' = [r EXCEPT !.drv_busy = FALSE, !.drv_completions = @ + 1]
    /\ UNCHANGED <<drained, det, ctl_vars, work_vars, work_ec, running, poller, nset>>

(***************************************************************************)
(* work(): the streaming path                                              *)
(***************************************************************************)
Range0(n) == [k \in 1 .. n |-> k - 1]

\* indexes of the enabled analog channels and digital ports, ascending
EnabledChannels(s) ==
    SelectSeq(Range0(d_ai_channels), LAMBDA i : s.d_channel_settings[i].enabled)

EnabledPorts(s) ==
    SelectSeq(Range0(d_ports), LAMBDA i : s.d_port_settings[i].enabled)

\* output_items.size(): two outputs per analog channel, one per port
NumOutputs == 2 * d_ai_channels + d_ports

Tag(output, kind, offset, status) ==
    [output |-> output, kind |-> kind, offset |-> offset, status |-> status]

\* add_item_tag over the enabled channels and then the enabled ports, with
\* output_idx advanced by two per enabled channel and by one per enabled port
stream_tags(s, kind, offset, status) ==
    LET ch == EnabledChannels(s)
        po == EnabledPorts(s)
    IN [k \in 1 .. Len(ch) |-> Tag(2 * (k - 1), kind, offset, status[ch[k]])]
       \o [k \in 1 .. Len(po) |-> Tag(2 * Len(ch) + (k - 1), kind, offset, 0)]

RECURSIVE trigger_tags(_, _, _)
trigger_tags(s, trigger_offsets, nw) ==
    IF trigger_offsets = <<>> THEN <<>>
    ELSE stream_tags(s, "trigger", nw + Head(trigger_offsets),
                     [i \in 0 .. d_ai_channels - 1 |-> 0])
         \o trigger_tags(s, Tail(trigger_offsets), nw)

\* find_analog_triggers over samples from detector state st0; voltages are
\* in hundredths of a volt, so that band = actual_range / 100 is exact.
\* The result is <<trigger_offsets, d_trigger_state>>
RECURSIVE analog_scan(_, _, _, _, _, _, _)
analog_scan(samples, i, st, rising, threshold, band, acc) ==
    IF i > Len(samples) THEN <<acc, st>>
    ELSE IF rising
         THEN IF st = 0 /\ samples[i] >= threshold
              THEN analog_scan(samples, i + 1, 1, rising, threshold, band, Append(acc, i - 1))
              ELSE IF st # 0 /\ samples[i] <= threshold - band
                   THEN analog_scan(samples, i + 1, 0, rising, threshold, band, acc)
                   ELSE analog_scan(samples, i + 1, st, rising, threshold, band, acc)
         ELSE IF st # 0 /\ samples[i] <= threshold
              THEN analog_scan(samples, i + 1, 0, rising, threshold, band, Append(acc, i - 1))
              ELSE IF st = 0 /\ samples[i] >= threshold + band
                   THEN analog_scan(samples, i + 1, 1, rising, threshold, band, acc)
                   ELSE analog_scan(samples, i + 1, st, rising, threshold, band, acc)

\* find_analog_triggers without hysteresis: the band is zero
find_analog_triggers_no_band(s, samples) ==
    LET t == s.d_trigger_settings IN
    IF ~is_enabled(t) \/ Len(samples) = 0 THEN <<<<>>, s.d_trigger_state>>
    ELSE analog_scan(samples, 1, s.d_trigger_state,
                     t.direction \in {"RISING", "HIGH"}, t.threshold, 0, <<>>)

\* find_analog_triggers with a detector state that starts afresh in every call
find_analog_triggers_restarts(s, samples) ==
    LET t == s.d_trigger_settings
        aichan == convert_to_aichan_idx(t.source)
        band == s.d_channel_settings[aichan].actual_range \div 100
    IN IF ~is_enabled(t) \/ Len(samples) = 0 THEN <<<<>>, s.d_trigger_state>>
       ELSE analog_scan(samples, 1, 0,
                        t.direction \in {"RISING", "HIGH"}, t.threshold, band, <<>>)

find_analog_triggers(s, samples) ==
    LET t == s.d_trigger_settings
        aichan == convert_to_aichan_idx(t.source)
        band == s.d_channel_settings[aichan].actual_range \div 100
    IN IF ~is_enabled(t) \/ Len(samples) = 0 THEN <<<<>>, s.d_trigger_state>>
       ELSE analog_scan(samples, 1, s.d_trigger_state,
                        t.direction \in {"RISING", "HIGH"}, t.threshold, band, <<>>)

\* find_digital_triggers: samples are the masked bits (samples[i] & mask != 0)
RECURSIVE digital_scan(_, _, _, _, _)
digital_scan(bits, i, st, rising, acc) ==
    IF i > Len(bits) THEN <<acc, st>>
    ELSE IF rising
         THEN IF st = 0 /\ bits[i]
              THEN digital_scan(bits, i + 1, 1, rising, Append(acc, i - 1))
              ELSE IF st # 0 /\ ~bits[i]
                   THEN digital_scan(bits, i + 1, 0, rising, acc)
                   ELSE digital_scan(bits, i + 1, st, rising, acc)
         ELSE IF st # 0 /\ ~bits[i]
              THEN digital_scan(bits, i + 1, 0, rising, Append(acc, i - 1))
              ELSE IF st = 0 /\ bits[i]
                   THEN digital_scan(bits, i + 1, 1, rising, acc)
                   ELSE digital_scan(bits, i + 1, st, rising, acc)

\* find_digital_triggers firing on the level of the bit, not on its edge
find_digital_triggers_level(s, bits) ==
    LET rising == s.d_trigger_settings.direction \in {"RISING", "HIGH"}
        hit == SelectSeq([k \in 1 .. Len(bits) |-> k - 1],
                         LAMBDA i : bits[i + 1] = rising)
    IN <<hit, IF bits = <<>> THEN s.d_trigger_state
              ELSE IF bits[Len(bits)] THEN 1 ELSE 0>>

find_digital_triggers(s, bits) ==
    digital_scan(bits, 1, s.d_trigger_state,
                 s.d_trigger_settings.direction \in {"RISING", "HIGH"}, <<>>)

\* bit pin of an 8-bit sample
BitSet(x, pin) == (x \div (2 ^ pin)) % 2 = 1

\* the output buffers after get_data_chunk has copied the chunk: the k-th
\* enabled channel's values at output 2 * i, its errors at 2 * i + 1, the
\* k-th enabled port's samples at 2 * d_ai_channels + i; the outputs of
\* disabled channels are not written and read as zeros
output_items(s, chunk) ==
    LET ch == EnabledChannels(s)
        po == EnabledPorts(s)
        zeros == [j \in 1 .. s.d_buffer_size |-> 0]
    IN [o \in 0 .. NumOutputs - 1 |->
          IF \E k \in 1 .. Len(ch) : o = 2 * ch[k] /\ k <= Len(chunk.analog)
          THEN chunk.analog[CHOOSE k \in 1 .. Len(ch) : o = 2 * ch[k]]
          ELSE IF \E k \in 1 .. Len(po) : o = 2 * d_ai_channels + po[k] /\ k <= Len(chunk.digital)
               THEN chunk.digital[CHOOSE k \in 1 .. Len(po) : o = 2 * d_ai_channels + po[k]]
               ELSE zeros]

\* software-based trigger detection of work_stream: <<offsets, detector state>>
software_trigger(s, chunk) ==
    LET t == s.d_trigger_settings
        out == output_items(s, chunk)
    IN IF is_analog(t)
       THEN LET aichan == convert_to_aichan_idx(t.source)
                output_idx == 2 * Len(SelectSeq(EnabledChannels(s), LAMBDA i : i < aichan))
            IN find_analog_triggers(s, SubSeq(out[output_idx], 1, s.d_buffer_size))
       ELSE IF is_digital(t)
            THEN LET port == t.pin_number \div 8
                     pin == t.pin_number % 8
                     buffer == out[NumOutputs - d_ports + port]
                 IN find_digital_triggers(s,
                        [j \in 1 .. s.d_buffer_size |-> BitSet(buffer[j], pin)])
            ELSE <<<<>>, s.d_trigger_state>>

\* work_stream's first statements: the error its wait returned is recorded
work_stream_record(s, ec) ==
    IF ec # NoError THEN add_error_code(s, ec) ELSE s

\* work_stream once its wait has returned without an error: one chunk is
\* consumed and tagged; noutput_items is the d_buffer_size read on entry,
\* nw is nitems_written(0)
\* tag_info: the acq_info tags carry samples and triggered_data
acq_info_tags(s, nw, channel_status) ==
    LET t == stream_tags(s, "acq_info", nw, channel_status) IN
    [k \in 1 .. Len(t) |->
        [output |-> t[k].output, kind |-> "acq_info", offset |-> nw,
         status |-> t[k].status, samples |-> s.d_buffer_size,
         triggered_data |-> FALSE]]

\* work_stream tagging every channel with the status of channel 0
work_stream_chunk_first_status(s, noutput_items, nw) ==
    LET chunk == Head(s.d_app_buffer.queue)
        a == app_buffer_get_data_chunk(s)
        found == software_trigger(a, chunk)
    IN [a EXCEPT !.newtags = @ \o acq_info_tags(a, nw,
                                      [i \in 0 .. d_ai_channels - 1 |-> chunk.status[0]])
                               \o trigger_tags(a, found[1], nw),
                 !.d_trigger_state = found[2],
                 !.retval = noutput_items]

\* work_stream's chunk path ending the stream when chunks were lost
work_stream_chunk_overflow_stops(s, noutput_items, nw) ==
    LET chunk == Head(s.d_app_buffer.queue)
        lost_count == s.d_app_buffer.lost
        a == app_buffer_get_data_chunk(s)
        channel_status == chunk.status
        found == software_trigger(a, chunk)
    IN IF lost_count >= 1 THEN [a EXCEPT !.retval = -1]
       ELSE [a EXCEPT !.newtags = @ \o acq_info_tags(a, nw, channel_status)
                                    \o trigger_tags(a, found[1], nw),
                      !.d_trigger_state = found[2],
                      !.retval = noutput_items]

work_stream_chunk(s, noutput_items, nw) ==
    LET chunk == Head(s.d_app_buffer.queue)
        a == app_buffer_get_data_chunk(s)
        channel_status == chunk.status
        found == software_trigger(a, chunk)
    IN [a EXCEPT !.newtags = @ \o acq_info_tags(a, nw, channel_status)
                               \o trigger_tags(a, found[1], nw),
                 !.d_trigger_state = found[2],
                 !.retval = noutput_items]

\* work_stream on a Watchdog error, after its disarm(): arm() and return 0
work_stream_rearm(s, ok) ==
    LET r == arm(Log(s, "arm"), ok) IN
    IF r.exc # "" THEN r ELSE [r EXCEPT !.retval = 0]

\* work_stream on a Stopped or any other error: stop
work_stream_stop(s) == [s EXCEPT !.retval = -1]

(***************************************************************************)
(* work(): the rapid-block path                                            *)
(***************************************************************************)
bstate_initialize(s, nr_waveforms) ==
    [s EXCEPT !.d_bstate.state = "READING_PART1",
              !.d_bstate.waveform_idx = 0,
              !.d_bstate.waveform_count = nr_waveforms]

bstate_set_waveform_params(s, offset, samples_left) ==
    [s EXCEPT !.d_bstate.offset = offset, !.d_bstate.samples_left = samples_left]

bstate_update_state(s, nsamples) ==
    LET b == [s.d_bstate EXCEPT !.offset = @ + nsamples,
                                !.samples_left = @ - nsamples]
    IN [s EXCEPT !.d_bstate =
          IF b.samples_left > 0
          THEN [b EXCEPT !.state = "READING_THE_REST"]
          ELSE IF b.waveform_idx + 1 >= b.waveform_count
               THEN [b EXCEPT !.waveform_idx = @ + 1, !.state = "WAITING"]
               ELSE [b EXCEPT !.waveform_idx = @ + 1, !.state = "READING_PART1"]]

driver_prefetch_block(s, ok) ==
    IF ok THEN Returns(Log(s, "driver_prefetch_block"), NoError)
    ELSE Returns(Log(Fault(s), "driver_prefetch_block"), DriverError)

driver_get_rapid_block_data(s, ok) ==
    IF ok THEN Returns(Log(s, "driver_get_rapid_block_data"), NoError)
    ELSE Returns(Log(Fault(s), "driver_get_rapid_block_data"), DriverError)

Min(a, b) == IF a < b THEN a ELSE b

\* the trigger tags packed onto the outputs of the enabled channels and ports
\* only, as work_stream numbers its outputs
rapid_block_tags_packed(s, vec_idx, nw) ==
    LET zero == [i \in 0 .. d_ai_channels - 1 |-> 0] IN
    stream_tags(s, "trigger", nw, zero)
    \o stream_tags(s, "trigger", nw + get_pre_trigger_samples_with_downsampling(s), zero)

\* the two trigger tags of every enabled channel (output 2 * i) and of every
\* enabled port (output 2 * d_ai_channels + i): trigger_tag, which carries
\* the waveform's pre- and post-trigger sample counts, at the waveform's
\* first sample and ttag at the trigger sample
RECURSIVE rapid_block_tags(_, _, _)
rapid_block_tags(s, vec_idx, nw) ==
    LET pre == get_pre_trigger_samples_with_downsampling(s)
        post == get_post_trigger_samples_with_downsampling(s)
        i == IF vec_idx < 2 * d_ai_channels THEN vec_idx \div 2
             ELSE vec_idx - 2 * d_ai_channels
        enabled == IF vec_idx < 2 * d_ai_channels
                   THEN s.d_channel_settings[i].enabled
                   ELSE s.d_port_settings[i].enabled
        step == IF vec_idx < 2 * d_ai_channels THEN 2 ELSE 1
    IN IF vec_idx >= NumOutputs THEN <<>>
       ELSE (IF enabled
             THEN <<[output |-> vec_idx, kind |-> "trigger", offset |-> nw, status |-> 0,
                     pre_trigger_samples |-> pre, post_trigger_samples |-> post],
                    Tag(vec_idx, "trigger", nw + pre, 0)>>
             ELSE <<>>)
            \o rapid_block_tags(s, vec_idx + step, nw)

\* work_rapid_block in WAITING without the trigger_once exit
work_rapid_block_waiting_again(s, ok1, ok2) ==
    IF s.d_auto_arm
    THEN LET r == arm(Log(disarm(Log(s, "disarm"), ok1), "arm"), ok2) IN
         IF r.exc # "" THEN [r EXCEPT !.exc = "", !.retval = -1] ELSE r
    ELSE s

\* work_rapid_block in WAITING, up to its wait: the trigger_once exit and the
\* automatic re-arm.  retval -1 means the call has returned
work_rapid_block_waiting(s, ok1, ok2) ==
    IF s.d_trigger_once /\ s.d_was_triggered_once THEN [s EXCEPT !.retval = -1]
    ELSE IF s.d_auto_arm
         THEN LET r == arm(Log(disarm(Log(s, "disarm"), ok1), "arm"), ok2) IN
              IF r.exc # "" THEN [r EXCEPT !.exc = "", !.retval = -1] ELSE r
         ELSE s

\* work_rapid_block after wait_data_ready() returned ec and
\* clear_data_ready(): with an error the call returns retval, without one
\* it goes on to READING_PART1
\* work_rapid_block ending the stream on every error of its wait
work_rapid_block_woken_stops(s, ec) ==
    LET r == clear_data_ready(s) IN
    IF ec # NoError THEN [r EXCEPT !.retval = -1]
    ELSE bstate_initialize(r, r.d_nr_captures)

work_rapid_block_woken(s, ec) ==
    LET r == clear_data_ready(s) IN
    IF ec = Stopped THEN [r EXCEPT !.retval = -1]
    ELSE IF ec # NoError THEN [r EXCEPT !.retval = 0]
    ELSE bstate_initialize(r, r.d_nr_captures)

work_rapid_block_part1(s, noutput_items, ok1, ok2, nw) ==
    LET a == driver_prefetch_block([s EXCEPT !.d_was_triggered_once = TRUE], ok1) IN
    IF a.ec # NoError THEN [add_error_code(a, a.ec) EXCEPT !.retval = -1]
    ELSE LET b == bstate_set_waveform_params(a, 0, get_block_size_with_downsampling(a))
             n == Min(noutput_items, b.d_bstate.samples_left)
             c == driver_get_rapid_block_data(b, ok2)
         IN IF c.ec # NoError THEN [add_error_code(c, c.ec) EXCEPT !.retval = -1]
            ELSE [bstate_update_state(c, n) EXCEPT
                     !.newtags = @ \o rapid_block_tags(c, 0, nw),
                     !.retval = n]

\* READING_THE_REST without the clamp of noutput_items to samples_left
work_rapid_block_rest_unclamped(s, noutput_items, ok) ==
    LET c == driver_get_rapid_block_data(s, ok) IN
    IF c.ec # NoError THEN [add_error_code(c, c.ec) EXCEPT !.retval = -1]
    ELSE [bstate_update_state(c, noutput_items) EXCEPT !.retval = noutput_items]

work_rapid_block_rest(s, noutput_items, ok) ==
    LET n == Min(noutput_items, s.d_bstate.samples_left)
        c == driver_get_rapid_block_data(s, ok)
    IN IF c.ec # NoError THEN [add_error_code(c, c.ec) EXCEPT !.retval = -1]
       ELSE [bstate_update_state(c, n) EXCEPT !.retval = n]

\* work_rapid_block from the READING states on
work_rapid_block_reading(s, noutput_items, ok1, ok2, nw) ==
    IF s.d_bstate.state = "READING_PART1"
    THEN work_rapid_block_part1(s, noutput_items, ok1, ok2, nw)
    ELSE IF s.d_bstate.state = "READING_THE_REST"
         THEN work_rapid_block_rest(s, noutput_items, ok2)
         ELSE [s EXCEPT !.retval = -1]

(***************************************************************************)
(* work(): what follows work_stream / work_rapid_block                     *)
(***************************************************************************)
timebase_tags(nw) == [k \in 1 .. NumOutputs |-> Tag(k - 1, "timebase", nw, 0)]

\* work() without its check of d_timebase_published
work_always_timebase(s, nw) ==
    IF s.retval > 0
    THEN [s EXCEPT !.newtags = @ \o timebase_tags(nw), !.d_timebase_published = TRUE]
    ELSE s

work(s, nw) ==
    IF s.retval > 0 /\ ~s.d_timebase_published
    THEN [s EXCEPT !.newtags = @ \o timebase_tags(nw), !.d_timebase_published = TRUE]
    ELSE s

(***************************************************************************)
(* Actions of the scheduler thread: one work() call                        *)
(***************************************************************************)
\* work() returns: the rest of work(), then the scheduler advances the
\* output offset by the items produced and stops calling after -1; ec is the
\* error code the call's wait returned
WorkReturns(r, ec) ==
    LET w == work(r, nitems_written) IN
    /\ blk' = Clean(w)
    /\ work_pc' = "idle"
    /\ work_ret' = [st |-> "returned", n |-> w.retval]
    /\ work_log' = work_log \o w.log
    /\ tags' = tags \o w.newtags
    /\ nitems_written' = nitems_written + (IF w.retval > 0 THEN w.retval ELSE 0)
    /\ running' = (running /\ w.retval # -1)
    /\ work_ec' = ec
    /\ work_noutput' = 0

\* an exception leaves work(): the scheduler thread ends
WorkThrows(r, ec) ==
    /\ blk' = Clean(r)
    /\ work_pc' = "idle"
    /\ work_ret' = [st |-> "threw", n |-> 0]
    /\ work_log' = work_log \o r.log
    /\ tags' = tags \o r.newtags
    /\ nitems_written' = nitems_written
    /\ running' = FALSE
    /\ work_ec' = ec
    /\ work_noutput' = 0

\* work() blocks at pc
WorkBlocks(r, pc, ec) ==
    /\ blk' = Clean(r)
    /\ work_pc' = pc
    /\ work_ret' = [st |-> "none", n |-> 0]
    /\ work_log' = work_log \o r.log
    /\ tags' = tags \o r.newtags
    /\ nitems_written' = nitems_written
    /\ running' = running
    /\ work_ec' = ec
    /\ work_noutput' = work_noutput

\* the scheduler calls work() in streaming mode: it waits on the buffer
WorkStreamCall ==
    /\ running /\ work_pc = "idle"
    /\ blk.d_acquisition_mode = "STREAMING"
    /\ Bounded(blk)
    /\ blk' = blk
    /\ work_pc' = "stream_wait"
    /\ work_ret' = [st |-> "none", n |-> 0]
    /\ work_log' = <<>> /\ tags' = <<>> /\ work_ec' = NoError
    /\ work_noutput' = blk.d_buffer_size
    /\ UNCHANGED <<drained, det, ctl_vars, nitems_written, running, poller, nset>>

\* d_app_buffer.wait_data_ready() returns
WorkStreamWake ==
    /\ work_pc = "stream_wait"
    /\ app_buffer_data_ready(blk)
    /\ LET ec == app_buffer_wait_data_ready(blk)
           a == work_stream_record(blk, ec)
       IN CASE ec = Stopped -> WorkReturns(work_stream_stop(a), ec)
            [] ec = Watchdog ->
                 IF disarm_waits(a)
                 THEN WorkBlocks(disarm_request(Log(a, "disarm")), "wd_disarm_wait", ec)
                 ELSE \E ok1, ok2 \in BOOLEAN :
                      LET r == work_stream_rearm(disarm(Log(a, "disarm"), ok1), ok2) IN
                      /\ BoundedRing(r)
                      /\ IF r.exc # "" THEN WorkThrows(r, ec) ELSE WorkReturns(r, ec)
            [] ec \notin {NoError, Stopped, Watchdog} -> WorkReturns(work_stream_stop(a), ec)
            [] OTHER -> WorkReturns(work_stream_chunk(a, work_noutput, nitems_written), ec)
    /\ UNCHANGED <<drained, det, ctl_vars, poller, nset>>

\* the disarm() of the Watchdog recovery goes on: the poller state is IDLE
WorkRearmWake ==
    /\ work_pc = "wd_disarm_wait"
    /\ blk.d_poller_state = "IDLE"
    /\ \E ok1, ok2 \in BOOLEAN :
        LET r == work_stream_rearm(disarm_finish(blk, ok1), ok2) IN
        /\ BoundedRing(r)
        /\ IF r.exc # "" THEN WorkThrows(r, work_ec) ELSE WorkReturns(r, work_ec)
    /\ UNCHANGED <<drained, det, ctl_vars, poller, nset>>

\* the scheduler calls work() in rapid-block mode
WorkRapidBlockCall ==
    /\ running /\ work_pc = "idle"
    /\ blk.d_acquisition_mode = "RAPID_BLOCK"
    /\ IF blk.d_bstate.state = "WAITING"
       THEN \E ok1, ok2 \in BOOLEAN :
            LET r == work_rapid_block_waiting(blk, ok1, ok2) IN
            /\ Bounded(r)
            /\ blk' = Clean(IF r.retval = -1 THEN work(r, nitems_written) ELSE r)
            /\ work_pc' = IF r.retval = -1 THEN "idle" ELSE "rb_wait"
            /\ work_ret' = IF r.retval = -1 THEN [st |-> "returned", n |-> -1]
                           ELSE [st |-> "none", n |-> 0]
            /\ work_log' = r.log /\ tags' = r.newtags
            /\ running' = (running /\ r.retval # -1)
            /\ work_ec' = NoError
            /\ nitems_written' = nitems_written
            /\ work_noutput' = 0
       ELSE \E noutput_items \in 1 .. MaxNoutput, ok1, ok2 \in BOOLEAN :
            LET r == work_rapid_block_reading(blk, noutput_items, ok1, ok2, nitems_written)
                w == work(r, nitems_written)
            IN /\ Bounded(r)
               /\ blk' = Clean(w)
               /\ work_pc' = "idle"
               /\ work_ret' = [st |-> "returned", n |-> w.retval]
               /\ work_log' = w.log /\ tags' = w.newtags
               /\ nitems_written' = nitems_written + (IF w.retval > 0 THEN w.retval ELSE 0)
               /\ running' = (running /\ w.retval # -1)
               /\ work_ec' = NoError
               /\ work_noutput' = 0
    /\ UNCHANGED <<drained, det, ctl_vars, poller, nset>>

\* wait_data_ready() returns the code of the notification
WorkRapidBlockWake ==
    /\ work_pc = "rb_wait"
    /\ blk.d_data_rdy
    /\ WorkBlocks(blk, "rb_clear", wait_data_ready(blk))
    /\ UNCHANGED <<drained, det, ctl_vars, poller, nset>>

\* clear_data_ready() and the rest of the call
WorkRapidBlockWoken ==
    /\ work_pc = "rb_clear"
    /\ LET a == work_rapid_block_woken(blk, work_ec) IN
       IF work_ec # NoError
       THEN WorkReturns(a, work_ec)
       ELSE \E noutput_items \in 1 .. MaxNoutput, ok1, ok2 \in BOOLEAN :
            LET r == work_rapid_block_reading(a, noutput_items, ok1, ok2, nitems_written) IN
            /\ Bounded(r)
            /\ WorkReturns(r, work_ec)
    /\ UNCHANGED <<drained, det, ctl_vars, poller, nset>>

(***************************************************************************)
(* Setter calls                                                            *)
(***************************************************************************)
\* the setter op leaves the block as r
Setter(op, r) ==
    /\ ctl_pc = "idle"
    /\ nset < MaxSetterCalls
    /\ nset' = nset + 1
    /\ blk' = Clean(r)
    /\ ctl_pc' = "idle"
    /\ ctl_op' = op
    /\ ctl_ret' = Outcome(r)
    /\ ctl_log' = <<>>
    /\ UNCHANGED <<drained, det, work_vars, work_ec, running, poller>>

CallSetSamples ==
    \E samples \in {0, 1}, pre_samples \in {-1, 0} :
        Setter("set_samples", set_samples(blk, samples, pre_samples))

CallSetSampRate ==
    \E rate \in {0, 2} : Setter("set_samp_rate", set_samp_rate(blk, rate))

CallSetBufferSize ==
    \E n \in {-1, 0, 1} : Setter("set_buffer_size", set_buffer_size(blk, n))

CallSetNrBuffers ==
    \E n \in {0, 1} : Setter("set_nr_buffers", set_nr_buffers(blk, n))

CallSetDriverBufferSize ==
    \E n \in {0, 1} : Setter("set_driver_buffer_size", set_driver_buffer_size(blk, n))

CallSetAutoArm ==
    \E b \in BOOLEAN : Setter("set_auto_arm", set_auto_arm(blk, b))

CallSetTriggerOnce ==
    \E b \in BOOLEAN : Setter("set_trigger_once", set_trigger_once(blk, b))

CallSetStreaming ==
    \E poll_rate \in {-1, 0} : Setter("set_streaming", set_streaming(blk, poll_rate))

CallSetRapidBlock ==
    \E nr_captures \in {0, 2} : Setter("set_rapid_block", set_rapid_block(blk, nr_captures))

CallSetDownsampling ==
    \E mode \in {"NONE", "DECIMATE"}, factor \in {1, 2} :
        Setter("set_downsampling", set_downsampling(blk, mode, factor))

\* d_channel_settings[idx] = ... with idx past the end of the std::array is
\* undefined behaviour: the call returns with the state the model keeps as it
\* was, or the process does not survive it
ArrayWrite(s, id, r) ==
    IF r.exc = "" /\ convert_to_aichan_idx(id) \notin DOMAIN s.d_channel_settings
    THEN {r, [s EXCEPT !.ret = "crash"]}
    ELSE {r}

CallSetAichan ==
    \E id \in {"A", "B", "AB", "C", "Q"} :
        \E r \in ArrayWrite(blk, id, set_aichan(blk, id, TRUE, 100, TRUE, 0)) :
            Setter("set_aichan", r)

CallSetAichanRange ==
    \E id \in {"A", "AB", "Q"} :
        \E r \in ArrayWrite(blk, id, set_aichan_range(blk, id, 100, 10)) :
            Setter("set_aichan_range", r)

CallSetDiport ==
    \E id \in {"port0", "portX"} :
        Setter("set_diport", set_diport(blk, id, TRUE, 100))

CallSetAichanTrigger ==
    \E id \in {"A", "AB"}, direction \in {"RISING", "FALLING"} :
        Setter("set_aichan_trigger", set_aichan_trigger(blk, id, direction, 50))

CallSetDiTrigger ==
    \E direction \in {"RISING", "FALLING"} :
        Setter("set_di_trigger", set_di_trigger(blk, 3, direction))

CallDisableTriggers == Setter("disable_triggers", disable_triggers(blk))

(***************************************************************************)
(* The trigger detector, called chunk by chunk as work_stream calls it     *)
(***************************************************************************)
\* the detector has been fed nothing
NoRun == [cfg |-> trigger_setting_t, band |-> 0, st0 |-> 0,
          samples |-> <<>>, offsets |-> <<>>, split |-> 0]

\* band = actual_range / 100 of the trigger's channel
Band(s) ==
    IF is_analog(s.d_trigger_settings)
    THEN s.d_channel_settings[convert_to_aichan_idx(s.d_trigger_settings.source)].actual_range
             \div 100
    ELSE 0

\* the run the next chunk belongs to: the samples fed since the trigger
\* settings were last changed, from the detector state st0 they started at;
\* split is the length of the run's first chunk
CurrentRun(s) ==
    IF det.split > 0 /\ det.cfg = s.d_trigger_settings /\ det.band = Band(s)
    THEN det
    ELSE [cfg |-> s.d_trigger_settings, band |-> Band(s), st0 |-> s.d_trigger_state,
          samples |-> <<>>, offsets |-> <<>>, split |-> 0]

\* the run after the detector returned found = <<offsets, state>> for samples
Fed(s, samples, found) ==
    LET d == CurrentRun(s) IN
    [d EXCEPT !.offsets = @ \o [k \in 1 .. Len(found[1]) |-> Len(d.samples) + found[1][k]],
              !.samples = @ \o samples,
              !.split = IF @ = 0 THEN Len(samples) ELSE @]

\* chunks of one to n samples over the values vs
Chunks(vs, n) == UNION {[1 .. k -> vs] : k \in 1 .. n}

\* voltages at, between and beyond threshold - band, threshold, threshold + band
\* of the trigger set_aichan_trigger configures here (threshold 50, band 2)
AnalogLevels == {48, 49, 50, 51, 52}

\* port samples with bit 3 clear and set
PortSamples == {0, 8}

\* samples[i] & mask for mask = 1 << (pin_number % 8)
Masked(s, samples) ==
    [j \in 1 .. Len(samples) |-> BitSet(samples[j], s.d_trigger_settings.pin_number % 8)]

FindAnalogTriggers ==
    /\ work_pc = "idle" /\ ctl_pc = "idle"
    /\ is_analog(blk.d_trigger_settings)
    /\ \E samples \in Chunks(AnalogLevels, MaxAnalogSamples - Len(CurrentRun(blk).samples)) :
        LET found == find_analog_triggers(blk, samples) IN
        /\ blk' = [blk EXCEPT !.d_trigger_state = found[2]]
        /\ det' = Fed(blk, samples, found)
    /\ UNCHANGED <<drained, ctl_vars, work_vars, work_ec, running, poller, nset>>

FindDigitalTriggers ==
    /\ work_pc = "idle" /\ ctl_pc = "idle"
    /\ is_digital(blk.d_trigger_settings)
    /\ \E samples \in Chunks(PortSamples, MaxDigitalSamples - Len(CurrentRun(blk).samples)) :
        LET found == find_digital_triggers(blk, Masked(blk, samples)) IN
        /\ blk' = [blk EXCEPT !.d_trigger_state = found[2]]
        /\ det' = Fed(blk, samples, found)
    /\ UNCHANGED <<drained, ctl_vars, work_vars, work_ec, running, poller, nset>>

(***************************************************************************)
(* Specifications                                                          *)
(***************************************************************************)
\* no call has been made, no thread is running
Quiescent ==
    /\ ctl_pc = "idle" /\ ctl_op = "none" /\ ctl_ret = "none" /\ ctl_log = <<>>
    /\ work_pc = "idle" /\ work_ec = NoError
    /\ work_ret = [st |-> "none", n |-> 0]
    /\ work_log = <<>> /\ tags = <<>> /\ nitems_written = 0 /\ work_noutput = 0
    /\ running = FALSE
    /\ poller = [alive |-> FALSE, state |-> "IDLE", counter |-> 0]
    /\ nset = 0
    /\ det = NoRun
    /\ drained = <<>>

Init ==
    /\ blk \in {digitizer_block_impl(auto_arm) : auto_arm \in BOOLEAN}
    /\ Quiescent

\* a block set up for rapid-block acquisition with automatic arming, by the
\* setter calls a flowgraph makes before it starts: set_rapid_block,
\* set_trigger_once, set_samples (sizes = <<samples, pre_samples>>, or <<>>
\* for the constructor's), set_downsampling (factor > 1) and the enabling of
\* the channels and ports named in chans
ConfigureRapid(nr_captures, once, sizes, factor, chans) ==
    LET a == set_trigger_once(set_rapid_block(digitizer_block_impl(TRUE), nr_captures), once)
        b == IF sizes = <<>> THEN a ELSE set_samples(a, sizes[1], sizes[2])
        c == IF factor = 1 THEN b ELSE set_downsampling(b, "DECIMATE", factor)
        d == IF "A" \in chans THEN set_aichan(c, "A", TRUE, 100, TRUE, 0) ELSE c
        e == IF "B" \in chans THEN set_aichan(d, "B", TRUE, 100, TRUE, 0) ELSE d
    IN IF "port0" \in chans THEN set_diport(e, "port0", TRUE, 100) ELSE e

\* a streaming block with automatic arming, the channels and ports named in
\* chans enabled and the trigger trig chosen
ConfigureStreaming(chans, trig) ==
    LET c == digitizer_block_impl(TRUE)
        d == IF "A" \in chans THEN set_aichan(c, "A", TRUE, 100, TRUE, 0) ELSE c
        e == IF "B" \in chans THEN set_aichan(d, "B", TRUE, 100, TRUE, 0) ELSE d
        f == IF "port0" \in chans THEN set_diport(e, "port0", TRUE, 100) ELSE e
    IN IF trig = "analog" THEN set_aichan_trigger(f, "A", "RISING", 50)
       ELSE IF trig = "analog B" THEN set_aichan_trigger(f, "B", "RISING", 50)
       ELSE IF trig = "digital" THEN set_di_trigger(f, 3, "RISING")
       ELSE f

InitTags ==
    /\ blk \in {set_nr_buffers(ConfigureStreaming(chans, trig), nr_buffers) :
                   chans \in {{"A"}, {"B"}, {"A", "B", "port0"}, {"B", "port0"}},
                   trig \in {"none", "analog", "analog B", "digital"},
                   nr_buffers \in {1, 2}}
    /\ Quiescent

\* a configured streaming block whose application buffer holds nr_buffers
\* chunks, before anything was pushed
InitBuffer ==
    /\ blk \in {Clean(configure(initialize(
                    set_nr_buffers(ConfigureStreaming({"A"}, "none"), nr_buffers),
                    TRUE), TRUE)) : nr_buffers \in {1, 2, 4}}
    /\ Quiescent

\* a block whose downsampling has been set once
InitConf ==
    /\ blk \in {set_downsampling(digitizer_block_impl(auto_arm), mode, factor) :
                   auto_arm \in BOOLEAN, mode \in {"NONE", "DECIMATE"}, factor \in {2, 3}}
    /\ Quiescent

InitBlock ==
    /\ blk \in {ConfigureRapid(nr_captures, once, sizes, factor, chans) :
                   nr_captures \in {1, 2}, once \in BOOLEAN,
                   sizes \in {<<>>, <<1, 1>>, <<1, 0>>}, factor \in {1, 2},
                   chans \in {{}, {"A"}, {"B", "port0"}}}
    /\ Quiescent

\* the lifecycle calls of a control thread, with the poller thread
NextLife ==
    \/ CallInitialize
    \/ CallConfigure
    \/ CallArm
    \/ CallDisarm
    \/ CallClose
    \/ CallStart
    \/ CallStop
    \/ DisarmWake
    \/ StopJoin
    \/ PollerIterate

SpecLife == Init /\ [][NextLife]_vars

\* the threads keep running: the poller thread goes on iterating, and a
\* requester whose wait condition holds, or whose join can return, goes on
ThreadsRun ==
    /\ WF_vars(PollerIterate)
    /\ WF_vars(DisarmWake)
    /\ WF_vars(StopJoin)

SpecLifeFair == SpecLife /\ ThreadsRun

\* a started streaming flowgraph: the scheduler's work() calls, the poller
\* thread, stop() and a change of the buffer size
NextStream ==
    \/ CallStart
    \/ CallStop
    \/ DisarmWake
    \/ StopJoin
    \/ PollerIterate
    \/ WorkStreamCall
    \/ WorkStreamWake
    \/ WorkRearmWake
    \/ CallSetBufferSize

SpecStream == Init /\ [][NextStream]_vars

\* a rapid-block flowgraph: the mode is chosen, the block started, the
\* driver signals completed acquisitions and the scheduler calls work()
NextRapid ==
    \/ CallSetRapidBlock
    \/ CallStart
    \/ CallArm
    \/ CallStop
    \/ DriverNotify
    \/ WorkRapidBlockCall
    \/ WorkRapidBlockWake
    \/ WorkRapidBlockWoken

SpecRapid == Init /\ [][NextRapid]_vars

\* a started flowgraph in either acquisition mode that is not stopped: the
\* scheduler's work() calls, the poller thread and the driver's callbacks
NextWork ==
    \/ CallSetRapidBlock
    \/ CallStart
    \/ PollerIterate
    \/ DriverNotify
    \/ WorkStreamCall
    \/ WorkStreamWake
    \/ WorkRearmWake
    \/ WorkRapidBlockCall
    \/ WorkRapidBlockWake
    \/ WorkRapidBlockWoken

SpecWork == Init /\ [][NextWork]_vars

\* the configuration surface: every setter, on a block that is initialized,
\* configured and armed by the control thread
NextSet ==
    \/ CallInitialize
    \/ CallConfigure
    \/ CallArm
    \/ CallSetSamples
    \/ CallSetSampRate
    \/ CallSetBufferSize
    \/ CallSetNrBuffers
    \/ CallSetDriverBufferSize
    \/ CallSetAutoArm
    \/ CallSetTriggerOnce
    \/ CallSetStreaming
    \/ CallSetRapidBlock
    \/ CallSetDownsampling
    \/ CallSetAichan
    \/ CallSetAichanRange
    \/ CallSetDiport
    \/ CallSetAichanTrigger
    \/ CallSetDiTrigger
    \/ CallDisableTriggers

SpecSet == Init /\ [][NextSet]_vars

\* the trigger detector: a trigger is configured, the detector is fed chunk
\* by chunk, the block is initialized and armed
NextDetect ==
    \/ CallSetAichanTrigger
    \/ CallSetDiTrigger
    \/ CallInitialize
    \/ CallArm
    \/ FindAnalogTriggers
    \/ FindDigitalTriggers

SpecDetect == Init /\ [][NextDetect]_vars

\* a configured rapid-block flowgraph: start(), the driver's completion
\* callback and the scheduler's work() calls
NextBlock ==
    \/ CallStart
    \/ DriverNotify
    \/ WorkRapidBlockCall
    \/ WorkRapidBlockWake
    \/ WorkRapidBlockWoken

SpecBlock == InitBlock /\ [][NextBlock]_vars

\* sequences of setter calls on a block that was never initialized
NextConf ==
    \/ CallSetSamples
    \/ CallSetSampRate
    \/ CallSetBufferSize
    \/ CallSetNrBuffers
    \/ CallSetDriverBufferSize
    \/ CallSetAutoArm
    \/ CallSetTriggerOnce
    \/ CallSetStreaming
    \/ CallSetRapidBlock
    \/ CallSetDownsampling
    \/ CallSetAichan
    \/ CallSetAichanRange
    \/ CallSetDiport
    \/ CallSetAichanTrigger
    \/ CallSetDiTrigger
    \/ CallDisableTriggers

SpecConf == InitConf /\ [][NextConf]_vars

\* the producer side of the application buffer: the streaming callback
\* pushes the next chunk
BufferPush ==
    /\ blk.d_app_buffer.pushed < MaxPushes
    /\ blk' = app_buffer_push(blk, streaming_chunk(blk))
    /\ UNCHANGED <<drained, det, ctl_vars, work_vars, work_ec, running, poller, nset>>

\* the consumer side: get_data_chunk() as work_stream calls it, the chunk it
\* hands out and the lost count it returns
BufferGet ==
    /\ blk.d_app_buffer.queue # <<>>
    /\ LET chunk == Head(blk.d_app_buffer.queue)
           lost_count == blk.d_app_buffer.lost
       IN /\ blk' = Clean(app_buffer_get_data_chunk(blk))
          /\ drained' = Append(drained, [id |-> chunk.id, lost_count |-> lost_count])
    /\ UNCHANGED <<det, ctl_vars, work_vars, work_ec, running, poller, nset>>

\* the application buffer between its producer and its consumer
NextBuffer ==
    \/ BufferPush
    \/ BufferGet

SpecBuffer == InitBuffer /\ [][NextBuffer]_vars

\* a configured streaming flowgraph: start(), the chunks of the streaming
\* callback and the scheduler's work() calls
NextTags ==
    \/ CallStart
    \/ PollerDelivers
    \/ WorkStreamCall
    \/ WorkStreamWake

SpecTags == InitTags /\ [][NextTags]_vars

(***************************************************************************)
(* Properties                                                              *)
(***************************************************************************)
InLog(log, call) == \E k \in 1 .. Len(log) : log[k] = call

\* the last call of the control thread was op and it has returned
Returned(op) == ctl_op = op /\ ctl_pc = "idle"

\* C1: in streaming mode, when stop() is called on an armed block while a
\* work() call is blocked on the AppBuffer with no data, the blocked wait is
\* released with Stopped: once that stop() has returned, the work() call is
\* not left waiting on an AppBuffer that has nothing to wake it
C1_StopReleasesStreamingWork ==
    (/\ Returned("stop")
     /\ InLog(ctl_log, "driver_disarm")
     /\ blk.d_acquisition_mode = "STREAMING"
     /\ work_pc = "stream_wait")
        => app_buffer_data_ready(blk)

\* C2: in rapid-block mode, when stop() is called on an initialized block
\* while a work() call is blocked in the WAITING state on the data-ready
\* condition, armed or not, the wait is released: once that stop() has
\* returned, the condition the work() call waits on is set
C2_StopReleasesRapidBlockWork ==
    (/\ Returned("stop")
     /\ blk.d_initialized
     /\ blk.d_acquisition_mode = "RAPID_BLOCK"
     /\ work_pc = "rb_wait")
        => blk.d_data_rdy

\* the settings fields, the channel and port configuration and the trigger
\* configuration of the block
Settings(s) ==
    <<s.d_samp_rate, s.d_samples, s.d_pre_samples, s.d_nr_captures,
      s.d_buffer_size, s.d_nr_buffers, s.d_driver_buffer_size,
      s.d_acquisition_mode, s.d_poll_rate, s.d_downsampling_mode,
      s.d_downsampling_factor, s.d_auto_arm, s.d_trigger_once,
      s.d_channel_settings, s.d_port_settings, s.d_trigger_settings>>

\* C3: while the block is armed, every configuration setter fails with a
\* state error and leaves every settings field, the channel and port
\* configuration and the trigger configuration unchanged
C3_SettersFailWhileArmed ==
    [][(blk.d_armed /\ nset' = nset + 1)
          => (ctl_ret' = "throw" /\ Settings(blk') = Settings(blk))]_vars

\* C4: after any sequence of initialize(), configure(), arm(), disarm(),
\* close(), start() and stop() calls the block is armed only if it is
\* initialized
C4_ArmedOnlyIfInitialized ==
    ctl_pc = "idle" => (blk.d_armed => blk.d_initialized)

\* the number of enabled analog channels and of enabled digital ports
EnabledAnalogCount(s) ==
    Cardinality({i \in DOMAIN s.d_channel_settings : s.d_channel_settings[i].enabled})

EnabledPortCount(s) ==
    Cardinality({i \in DOMAIN s.d_port_settings : s.d_port_settings[i].enabled})

\* C5: configure() on a block that is not initialized, or that is armed, fails
\* without calling driver_configure and without touching the AppBuffer; on an
\* initialized block that is not armed it calls driver_configure and, when
\* that succeeds, leaves the AppBuffer empty and shaped by the enabled analog
\* count, the enabled port count, buffer_size and nr_buffers
C5_Configure ==
    [][(ctl_pc = "idle" /\ ctl_pc' = "idle" /\ ctl_op' = "configure" /\ nset' = nset)
          => IF ~blk.d_initialized \/ blk.d_armed
             THEN /\ ctl_ret' = "throw"
                  /\ ~InLog(ctl_log', "driver_configure")
                  /\ blk'.d_app_buffer = blk.d_app_buffer
             ELSE /\ InLog(ctl_log', "driver_configure")
                  /\ ctl_ret' = "ok" =>
                       /\ blk'.d_app_buffer.shape =
                            <<EnabledAnalogCount(blk), EnabledPortCount(blk),
                              blk.d_buffer_size, blk.d_nr_buffers>>
                       /\ blk'.d_app_buffer.queue = <<>>
                       /\ blk'.d_app_buffer.errc = NoError]_vars

\* a configure() that succeeded with one analog channel enabled
C5_Witness ==
    /\ Returned("configure") /\ ctl_ret = "ok"
    /\ blk.d_app_buffer.shape[1] = 1

\* C6: when start() fails it returns false, stores the failure message and
\* leaves no partial state: the driver is closed and the block is neither
\* initialized nor armed
C6_StartFailureLeavesNoState ==
    (Returned("start") /\ ctl_ret = "false")
        => /\ blk.d_configure_exception_message # ""
           /\ ~blk.drv_open
           /\ ~blk.d_initialized
           /\ ~blk.d_armed

\* a streaming work() call returns or throws in this step
StreamWorkEnds ==
    work_pc \in {"stream_wait", "wd_disarm_wait"} /\ work_pc' = "idle"

\* C7: in streaming mode a work() call that observes a Watchdog error makes
\* one disarm() and then one arm(), consumes no chunk, attaches no tag and
\* returns 0, and the block is armed with the poller RUNNING when it returns
C7_WatchdogRearm ==
    [][(StreamWorkEnds /\ work_ec' = Watchdog)
          => /\ work_ret' = [st |-> "returned", n |-> 0]
             /\ SelectSeq(work_log', LAMBDA c : c \in {"disarm", "arm"}) = <<"disarm", "arm">>
             /\ blk'.d_app_buffer.queue = blk.d_app_buffer.queue
             /\ tags' = <<>>
             /\ blk'.d_armed
             /\ blk'.d_poller_state = "RUNNING"]_vars

\* the error codes of the ErrorRing
Recorded(s) == {s.d_errors[k] : k \in 1 .. Len(s.d_errors)}

\* a work() call whose data-ready wait returned ec ends in this step, in
\* streaming mode or in rapid-block mode
StreamWaitFailed(ec) ==
    /\ work_pc = "stream_wait" /\ work_pc' = "idle"
    /\ app_buffer_wait_data_ready(blk) = ec

RapidBlockWaitFailed(ec) ==
    /\ work_pc = "rb_clear" /\ work_pc' = "idle"
    /\ work_ec = ec

\* C8 as stated: in both modes, when the data-ready wait inside work()
\* returns an error that is neither Watchdog nor Stopped, the error code is
\* in the ErrorRing and work() returns end-of-stream
C8_ErrorEndsStream ==
    [][\A ec \in {DriverError, Interrupted} :
          (StreamWaitFailed(ec) \/ RapidBlockWaitFailed(ec))
             => /\ ec \in Recorded(blk')
                /\ work_ret' = [st |-> "returned", n |-> -1]]_vars

\* C8: when the data-ready wait inside work() returns an error that is
\* neither Watchdog nor Stopped: in streaming mode work() appends the code to
\* the ErrorRing and returns end-of-stream; in rapid-block mode the code is in
\* the ErrorRing already (its notification recorded it), work() records
\* nothing more, returns 0 and stays in the WAITING state
C8_ErrorEndsStreamOrRetries ==
    [][\A ec \in {DriverError, Interrupted} :
          /\ StreamWaitFailed(ec)
                => /\ blk'.d_errors = Append(blk.d_errors, ec)
                   /\ work_ret' = [st |-> "returned", n |-> -1]
          /\ RapidBlockWaitFailed(ec)
                => /\ ec \in Recorded(blk)
                   /\ blk'.d_errors = blk.d_errors
                   /\ blk'.d_bstate.state = "WAITING"
                   /\ work_ret' = [st |-> "returned", n |-> 0]]_vars

\* a rapid-block work() call has returned 0 on a driver error
C8_Witness ==
    /\ work_pc = "idle" /\ work_ec = DriverError
    /\ work_ret = [st |-> "returned", n |-> 0]
    /\ blk.d_acquisition_mode = "RAPID_BLOCK"
    /\ DriverError \in Recorded(blk)

\* C9: a streaming work() call that returns n > 0 returns n = buffer_size and
\* has dequeued exactly one chunk from the AppBuffer; a call that returns 0 or
\* a negative value has dequeued none
C9_OneChunkPerPositiveReturn ==
    [][(StreamWorkEnds /\ work_ret'.st = "returned")
          => LET n == work_ret'.n
                 dequeued == Len(blk.d_app_buffer.queue) - Len(blk'.d_app_buffer.queue)
             IN /\ n > 0 => (n = blk'.d_buffer_size /\ dequeued = 1)
                /\ n <= 0 => dequeued = 0]_vars

\* the Timebase tags among a call's tags
Timebase(ts) == SelectSeq(ts, LAMBDA tg : tg.kind = "timebase")

\* one Timebase tag on every output slot, at offset
TimebaseOnEveryOutput(ts, offset) ==
    /\ Len(Timebase(ts)) = NumOutputs
    /\ \A i \in 0 .. NumOutputs - 1 :
          \E k \in 1 .. Len(ts) :
              ts[k].kind = "timebase" /\ ts[k].output = i /\ ts[k].offset = offset

\* C10: a work() call emits Timebase tags exactly when it returns a positive
\* count and is the first to do so since an arm() took effect; it then
\* attaches one to every output slot, at the output offset of the first
\* sample the call produced.  A step that advances nitems_written is a work()
\* call returning a positive count; any other step that changes the tags is
\* a work() call starting or ending without one
C10_TimebaseOncePerArm ==
    [][/\ nitems_written' > nitems_written
            => IF blk.h_arm_pending
               THEN TimebaseOnEveryOutput(tags', nitems_written)
               ELSE Timebase(tags') = <<>>
       /\ (nitems_written' = nitems_written /\ tags' # tags)
            => Timebase(tags') = <<>>]_vars

\* the second positive work() call after an arm(): it carries no Timebase tag
C10_Witness ==
    /\ work_pc = "idle"
    /\ work_ret.st = "returned" /\ work_ret.n > 0
    /\ nitems_written > work_ret.n
    /\ Timebase(tags) = <<>>
    /\ ~blk.h_arm_pending

\* the run's direction is Rising or High
RunRising == det.cfg.direction \in {"RISING", "HIGH"}

\* the run's detector result when the whole run is fed in one call, from the
\* state the run started at
WholeRun ==
    LET s0 == [blk EXCEPT !.d_trigger_settings = det.cfg, !.d_trigger_state = det.st0] IN
    IF is_analog(det.cfg) THEN find_analog_triggers(s0, det.samples)
    ELSE find_digital_triggers(s0, Masked(s0, det.samples))

\* C14: for the analog detector over any sequence of chunks, between any two
\* consecutive fires there is a sample at or below threshold - band when the
\* direction is Rising/High, and a sample at or above threshold + band when
\* it is Falling/Low
C14_HysteresisBetweenFires ==
    is_analog(det.cfg) =>
        \A k \in 1 .. Len(det.offsets) - 1 :
            \E j \in det.offsets[k] + 1 .. det.offsets[k + 1] - 1 :
                IF RunRising
                THEN det.samples[j + 1] <= det.cfg.threshold - det.band
                ELSE det.samples[j + 1] >= det.cfg.threshold + det.band

\* the analog detector has fired twice on a falling direction, over two
\* chunks or more
C14_Witness ==
    /\ is_analog(det.cfg) /\ ~RunRising
    /\ Len(det.offsets) >= 2
    /\ det.split < Len(det.samples)

\* C15: in Falling/Low analog mode, from the detector state of a freshly
\* constructed block, the detector fires at the first sample at or below the
\* threshold
C15_FallingFiresAtFirstLow ==
    (/\ is_analog(det.cfg) /\ ~RunRising
     /\ det.st0 = 0
     /\ \E j \in 1 .. Len(det.samples) : det.samples[j] <= det.cfg.threshold)
        => /\ det.offsets # <<>>
           /\ det.offsets[1] + 1 =
                 CHOOSE j \in 1 .. Len(det.samples) :
                     /\ det.samples[j] <= det.cfg.threshold
                     /\ \A i \in 1 .. j - 1 : det.samples[i] > det.cfg.threshold

\* C16: trigger detection is invariant under chunking: the offsets the
\* detector returned chunk by chunk, each shifted by the length of the chunks
\* before it, and the state it is left in are those of one call on the whole
\* sample sequence from the same starting state, analog or digital
C16_ChunkingInvariant ==
    det.split > 0 => WholeRun = <<det.offsets, blk.d_trigger_state>>

\* a run of more than one chunk in which the detector fired after the first
C16_Witness ==
    /\ det.split > 0 /\ det.split < Len(det.samples)
    /\ \E k \in 1 .. Len(det.offsets) : det.offsets[k] >= det.split

\* C17: every arm() that takes effect resets the trigger detector's boolean
\* state to its initial, not fired, value
C17_ArmResetsDetector ==
    [][(ctl_op' = "arm" /\ ~blk.d_armed /\ blk'.d_armed) => blk'.d_trigger_state = 0]_vars

\* C18: the digital detector on one masked bit fires, with Rising/High,
\* exactly at the indexes where the bit is 1 and the previous bit value (the
\* detector state before the first sample) is 0, and with Falling/Low exactly
\* where the bit is 0 and the previous value is 1; bit 3, Rising, samples
\* 0x00 0x00 0x08 0x08 0x00 0x08 gives offsets 2 and 5
C18_DigitalEdges ==
    /\ is_digital(det.cfg) =>
          LET bit == Masked([d_trigger_settings |-> det.cfg], det.samples)
              prev(k) == IF k = 1 THEN det.st0 # 0 ELSE bit[k - 1]
              edge(k) == IF RunRising THEN bit[k] /\ ~prev(k) ELSE ~bit[k] /\ prev(k)
          IN det.offsets =
                SelectSeq([k \in 1 .. Len(bit) |-> k - 1], LAMBDA i : edge(i + 1))
    /\ (/\ is_digital(det.cfg) /\ RunRising /\ det.st0 = 0
        /\ det.cfg.pin_number = 3
        /\ det.samples = <<0, 0, 8, 8, 0, 8>>) => det.offsets = <<2, 5>>

\* the scenario's samples have been fed, in more than one chunk
C18_Witness ==
    /\ is_digital(det.cfg) /\ RunRising
    /\ det.samples = <<0, 0, 8, 8, 0, 8>>
    /\ det.offsets = <<2, 5>>
    /\ det.split < Len(det.samples)


(***************************************************************************)
(* Rapid-block reading                                                     *)
(***************************************************************************)
\* a work() call finds the trigger_once block in WAITING after a waveform
\* has been read since start()
TriggerOnceExit ==
    /\ WorkRapidBlockCall
    /\ blk.d_bstate.state = "WAITING"
    /\ blk.d_trigger_once /\ blk.d_was_triggered_once

\* floor(pre / f) + floor(post / f), f the downsampling factor in effect
DownsampledBlock(s) ==
    LET f == IF s.d_downsampling_mode # "NONE" THEN s.d_downsampling_factor ELSE 1 IN
    (s.d_pre_samples \div f) + (s.d_samples \div f)

\* C11 as stated: with trigger_once, for every nr_captures, exactly one
\* waveform has been produced when work() returns end-of-stream.
C11_OneWaveformThenEnd ==
    [][TriggerOnceExit =>
          /\ work_ret' = [st |-> "returned", n |-> -1]
          /\ blk.d_bstate.waveform_idx = 1]_vars

\* C11, amended: with trigger_once, the work() call that finds the block in
\* WAITING after a waveform has been read returns end-of-stream and attaches
\* nothing; by then all nr_captures waveforms of the acquisition have been
\* produced, that is exactly one waveform only when nr_captures = 1.
C11_OneAcquisitionThenEnd ==
    [][TriggerOnceExit =>
          /\ work_ret' = [st |-> "returned", n |-> -1]
          /\ work_pc' = "idle" /\ ~running'
          /\ tags' = <<>> /\ nitems_written' = nitems_written
          /\ blk'.d_bstate = blk.d_bstate
          /\ blk.d_bstate.waveform_idx = blk.d_nr_captures
          /\ DownsampledBlock(blk) > 0 =>
                /\ nitems_written > 0
                /\ nitems_written % (blk.d_nr_captures * DownsampledBlock(blk)) = 0]_vars

C11_Witness ==
    /\ work_ret = [st |-> "returned", n |-> -1] /\ ~running
    /\ blk.d_trigger_once /\ blk.d_was_triggered_once
    /\ blk.d_bstate.state = "WAITING"
    /\ blk.d_nr_captures = 2 /\ blk.d_bstate.waveform_idx = 2
    /\ nitems_written = 2 * DownsampledBlock(blk) /\ nitems_written > 0

\* the step is the return of a work() call that read, in READING_PART1 or
\* READING_THE_REST, from block s with noutput_items and the driver
\* outcomes ok1, ok2
Reads(s, noutput_items, ok1, ok2) ==
    LET r == work_rapid_block_reading(s, noutput_items, ok1, ok2, nitems_written) IN
    /\ \/ WorkRapidBlockCall /\ blk.d_bstate.state # "WAITING" /\ s = blk
       \/ /\ WorkRapidBlockWoken /\ work_ec = NoError
          /\ s = work_rapid_block_woken(blk, NoError)
    /\ blk' = Clean(work(r, nitems_written))
    /\ work_ret' = [st |-> "returned", n |-> r.retval]

\* a driver call of the read fails
ReadFails(s, ok1, ok2) ==
    IF s.d_bstate.state = "READING_PART1" THEN ~ok1 \/ ~ok2 ELSE ~ok2

\* samples_left when the call clamps noutput_items
SamplesLeft(s) ==
    IF s.d_bstate.state = "READING_PART1" THEN DownsampledBlock(s)
    ELSE s.d_bstate.samples_left

\* the call returns a clamped count, stays on its waveform until that is
\* exhausted, then moves to the next one, or to WAITING after the last; the
\* counts returned for every exhausted waveform add up to the block size
ReadsClamped(s, noutput_items) ==
    LET b == s.d_bstate
        b2 == blk'.d_bstate
        r == work_ret'.n
        size == DownsampledBlock(s)
    IN /\ 0 <= r /\ r <= Min(noutput_items, SamplesLeft(s))
       /\ nitems_written' = nitems_written + r
       /\ b.waveform_idx < s.d_nr_captures
       /\ IF r < SamplesLeft(s)
          THEN /\ b2.state = "READING_THE_REST"
               /\ b2.waveform_idx = b.waveform_idx
               /\ b2.samples_left = SamplesLeft(s) - r
               /\ nitems_written' % size = size - b2.samples_left
          ELSE /\ b2.waveform_idx = b.waveform_idx + 1
               /\ b2.state = IF b.waveform_idx + 1 = s.d_nr_captures
                             THEN "WAITING" ELSE "READING_PART1"
               /\ size > 0 => nitems_written' % size = 0

\* a failed read records the driver's error, ends the stream and stays on
\* its waveform
ReadFailed(s) ==
    /\ work_ret'.n = -1 /\ ~running'
    /\ blk'.d_errors = add_error_code(blk, DriverError).d_errors
    /\ nitems_written' = nitems_written
    /\ blk'.d_bstate.state = s.d_bstate.state
    /\ blk'.d_bstate.waveform_idx = s.d_bstate.waveform_idx

\* C12 as stated: every work() call in READING_PART1 or READING_THE_REST
\* returns 0 <= r <= min(noutput_items, samples_left); the waveforms are
\* read in index order, each to exhaustion (floor(pre/f) + floor(post/f)
\* samples in all) before the next, and WAITING is re-entered only after
\* the last of the nr_captures waveforms.
C12_ReadsClampedInOrder ==
    [][\A noutput_items \in 1 .. MaxNoutput, ok1, ok2 \in BOOLEAN :
         \A s \in {blk, work_rapid_block_woken(blk, NoError)} :
            Reads(s, noutput_items, ok1, ok2) => ReadsClamped(s, noutput_items)]_vars

\* C12, amended: the same of every such call whose driver calls succeed; a
\* call whose driver_prefetch_block or driver_get_rapid_block_data fails
\* records the error and returns end-of-stream without leaving its waveform.
C12_ReadsClampedUnlessDriverFails ==
    [][\A noutput_items \in 1 .. MaxNoutput, ok1, ok2 \in BOOLEAN :
         \A s \in {blk, work_rapid_block_woken(blk, NoError)} :
            Reads(s, noutput_items, ok1, ok2) =>
               IF ReadFails(s, ok1, ok2) THEN ReadFailed(s)
               ELSE ReadsClamped(s, noutput_items)]_vars

\* the second waveform of two has been read to its end in two calls
C12_Witness ==
    /\ work_ret.st = "returned" /\ work_ret.n = 1
    /\ blk.d_acquisition_mode = "RAPID_BLOCK"
    /\ blk.d_nr_captures = 2 /\ blk.d_bstate.waveform_idx = 2
    /\ blk.d_bstate.state = "WAITING"
    /\ DownsampledBlock(blk) = 3 /\ nitems_written = 6

TriggerTagsOn(ts, o) == SelectSeq(ts, LAMBDA tg : tg.kind = "trigger" /\ tg.output = o)

\* output o carries the samples of an enabled channel or port
OutputEnabled(s, o) ==
    IF o < 2 * d_ai_channels
    THEN o % 2 = 0 /\ s.d_channel_settings[o \div 2].enabled
    ELSE s.d_port_settings[o - 2 * d_ai_channels].enabled

TagsAt(ts, offset) == {k \in 1 .. Len(ts) : ts[k].offset = offset}

\* the step is a successful READING_PART1 call
ReadsPart1 ==
    \E noutput_items \in 1 .. MaxNoutput :
       \E s \in {blk, work_rapid_block_woken(blk, NoError)} :
          /\ s.d_bstate.state = "READING_PART1"
          /\ Reads(s, noutput_items, TRUE, TRUE)

\* the step is a READING_THE_REST call
ReadsTheRest ==
    /\ blk.d_bstate.state = "READING_THE_REST"
    /\ \E noutput_items \in 1 .. MaxNoutput, ok \in BOOLEAN :
          Reads(blk, noutput_items, ok, ok)

\* C13 as stated: in READING_PART1, for every pre >= 0, exactly one Trigger
\* tag is attached at offset pre from the waveform's first sample on every
\* enabled output; READING_THE_REST attaches no tags.
C13_OneTriggerTagAtPre ==
    [][/\ ReadsPart1 =>
            \A o \in 0 .. NumOutputs - 1 :
               LET T == TriggerTagsOn(tags', o)
                   pre == get_pre_trigger_samples_with_downsampling(blk)
               IN IF OutputEnabled(blk, o)
                  THEN Cardinality(TagsAt(T, nitems_written + pre)) = 1
                  ELSE T = <<>>
       /\ ReadsTheRest => tags' = <<>>]_vars

\* C13, amended: READING_PART1 attaches two Trigger tags to every enabled
\* output and none to the others: one carrying the pre- and post-trigger
\* sample counts at the waveform's first sample, and one at offset pre from
\* it.  So exactly one Trigger tag lies at offset pre when pre > 0, and both
\* do when pre = 0.  READING_THE_REST attaches no tags.
C13_TwoTriggerTags ==
    [][/\ ReadsPart1 =>
            \A o \in 0 .. NumOutputs - 1 :
               LET T == TriggerTagsOn(tags', o)
                   pre == get_pre_trigger_samples_with_downsampling(blk)
                   post == get_post_trigger_samples_with_downsampling(blk)
               IN IF OutputEnabled(blk, o)
                  THEN /\ Len(T) = 2
                       /\ \E k \in 1 .. 2 :
                             /\ T[k] = [output |-> o, kind |-> "trigger",
                                        offset |-> nitems_written, status |-> 0,
                                        pre_trigger_samples |-> pre,
                                        post_trigger_samples |-> post]
                             /\ T[3 - k] = Tag(o, "trigger", nitems_written + pre, 0)
                       /\ Cardinality(TagsAt(T, nitems_written + pre))
                             = IF pre > 0 THEN 1 ELSE 2
                  ELSE T = <<>>
       /\ ReadsTheRest => tags' = <<>>]_vars

\* a waveform with no pre-trigger samples has begun on channel B and port 0
C13_Witness ==
    /\ work_ret.st = "returned" /\ work_ret.n > 0
    /\ blk.d_acquisition_mode = "RAPID_BLOCK"
    /\ get_pre_trigger_samples_with_downsampling(blk) = 0
    /\ ~blk.d_channel_settings[0].enabled
    /\ Len(TriggerTagsOn(tags, 2)) = 2
    /\ Len(TriggerTagsOn(tags, 2 * d_ai_channels)) = 2
    /\ Cardinality(TagsAt(TriggerTagsOn(tags, 2), tags[1].offset)) = 2


(***************************************************************************)
(* Streaming tags                                                          *)
(***************************************************************************)
\* the step is the return of a streaming work() call that consumed a chunk
StreamChunkReturn ==
    /\ WorkStreamWake
    /\ app_buffer_wait_data_ready(blk) = NoError
    /\ work_ret' = [st |-> "returned", n |-> blk.d_buffer_size]

\* the value outputs of the enabled channels and the outputs of the enabled
\* ports, at their fixed positions
EnabledOutputs(s) == {o \in 0 .. NumOutputs - 1 : OutputEnabled(s, o)}

\* the outputs that carry a tag of the kind at the offset
TaggedOutputs(ts, kind, offset) ==
    {ts[k].output : k \in {j \in 1 .. Len(ts) : ts[j].kind = kind /\ ts[j].offset = offset}}

\* C19: in streaming work() the Acq-info tag and every Trigger tag of enabled
\* analog channel i are attached to output 2 * i, those of enabled port j to
\* output 2 * d_ai_channels + j, whichever channels and ports are enabled.
C19_TagsAtFixedSlots ==
    [][StreamChunkReturn =>
          /\ TaggedOutputs(tags', "acq_info", nitems_written) = EnabledOutputs(blk)
          /\ \A k \in 1 .. Len(tags') :
                tags'[k].kind = "trigger" =>
                   TaggedOutputs(tags', "trigger", tags'[k].offset) = EnabledOutputs(blk)]_vars

\* C20: a streaming work() call that returns buffer_size attaches first one
\* Acq-info tag per enabled channel, with the channel's status, and one per
\* enabled port, with status 0, each at the offset of the chunk's first
\* sample with samples = buffer_size and triggered = false; then, for each
\* offset the trigger detector returns, one Trigger tag per enabled channel
\* and port at chunk start + offset.  (Which output carries a tag is the
\* subject of C19.)
C20_AcqInfoThenTriggerTags ==
    [][StreamChunkReturn =>
          LET chunk == Head(blk.d_app_buffer.queue)
              ch == EnabledChannels(blk)
              po == EnabledPorts(blk)
              n == Len(ch) + Len(po)
              found == software_trigger(blk, chunk)[1]
              acq == SubSeq(tags', 1, n)
              trg == SubSeq(tags', n + 1, n + n * Len(found))
          IN /\ Len(tags') >= n + n * Len(found)
             /\ \A k \in 1 .. Len(tags') :
                   /\ tags'[k].kind = "acq_info" <=> k <= n
                   /\ tags'[k].kind = "trigger" <=> (n < k /\ k <= n + n * Len(found))
             /\ \A k \in 1 .. n :
                   /\ acq[k].offset = nitems_written
                   /\ acq[k].samples = blk.d_buffer_size
                   /\ acq[k].triggered_data = FALSE
                   /\ acq[k].status = IF k <= Len(ch) THEN chunk.status[ch[k]] ELSE 0
             /\ Cardinality({acq[k].output : k \in 1 .. n}) = n
             /\ \A m \in 1 .. Len(found) :
                   LET T == SubSeq(trg, (m - 1) * n + 1, m * n) IN
                   /\ \A k \in 1 .. n : T[k].offset = nitems_written + found[m]
                   /\ Cardinality({T[k].output : k \in 1 .. n}) = n]_vars

\* a chunk whose channels report different status words has been consumed
\* with channels A and B and port 0 enabled, and the detector has fired
C20_Witness ==
    /\ work_ret = [st |-> "returned", n |-> blk.d_buffer_size]
    /\ blk.d_acquisition_mode = "STREAMING"
    /\ EnabledChannels(blk) = <<0, 1>> /\ EnabledPorts(blk) = <<0>>
    /\ Len(tags) >= 6
    /\ tags[1].kind = "acq_info" /\ tags[1].status = 1
    /\ tags[2].kind = "acq_info" /\ tags[2].status = 2
    /\ tags[3].kind = "acq_info" /\ tags[3].status = 0
    /\ tags[4].kind = "trigger" /\ tags[6].kind = "trigger"


\* C21: the tags one work() call attaches to any one output are attached in
\* non-decreasing order of offset, the Timebase tag of the first successful
\* call after arm() included.
C21_TagOffsetsNonDecreasing ==
    \A j, k \in 1 .. Len(tags) :
       (j < k /\ tags[j].output = tags[k].output) => tags[j].offset <= tags[k].offset


(***************************************************************************)
(* Setters                                                                 *)
(***************************************************************************)
\* the step is the setter call op that leaves r, r is a failure with
\* std::invalid_argument, and the step has changed nothing
Rejects(op, r) ==
    Setter(op, r) =>
       /\ r.exc = "invalid_argument" /\ ctl_ret' = "throw"
       /\ blk' = blk /\ poller' = poller /\ running' = running

\* C22: every setter called with an out-of-range argument fails with
\* InvalidArgument and changes no field: not the acquisition mode, not the
\* armed and initialized flags, not the poller state.
C22_OutOfRangeRejected ==
    [][/\ Rejects("set_samp_rate", set_samp_rate(blk, 0))
       /\ \A samples \in {0, 1}, pre_samples \in {-1, 0} :
             (samples < 1 \/ pre_samples < 0) =>
                Rejects("set_samples", set_samples(blk, samples, pre_samples))
       /\ Rejects("set_buffer_size", set_buffer_size(blk, -1))
       /\ Rejects("set_nr_buffers", set_nr_buffers(blk, 0))
       /\ Rejects("set_driver_buffer_size", set_driver_buffer_size(blk, 0))
       /\ Rejects("set_streaming", set_streaming(blk, -1))
       /\ Rejects("set_rapid_block", set_rapid_block(blk, 0))
       /\ Rejects("set_downsampling", set_downsampling(blk, "DECIMATE", 1))]_vars

\* set_streaming(-1) has failed on an armed block
C22_Witness ==
    /\ ctl_op = "set_streaming" /\ ctl_ret = "throw"
    /\ blk.d_armed /\ blk.d_initialized
    /\ blk.d_poll_rate >= 0


\* the channel ids of the device: the first d_ai_channels letters
DeviceChannels == {Letters[k] : k \in 1 .. d_ai_channels}

\* C23: set_aichan, set_aichan_range and set_aichan_trigger called with an
\* id that names no channel of the device fail with InvalidArgument and
\* leave the channel and trigger configuration as it was; the index they
\* compute always lies inside the channel-settings table.
C23_UnknownChannelRejected ==
    [][\A id \in {"A", "B", "AB", "C", "Q"} :
          /\ (convert_to_aichan_idx(id) >= 0 /\ \E r \in {set_aichan(blk, id, TRUE, 100, TRUE, 0),
                                                          set_aichan_range(blk, id, 100, 10)} :
                  Setter("set_aichan", r) \/ Setter("set_aichan_range", r))
                => convert_to_aichan_idx(id) \in DOMAIN blk.d_channel_settings
          /\ id \notin DeviceChannels =>
                /\ Rejects("set_aichan", set_aichan(blk, id, TRUE, 100, TRUE, 0))
                /\ Rejects("set_aichan_range", set_aichan_range(blk, id, 100, 10))
                /\ \A direction \in {"RISING", "FALLING"} :
                      Rejects("set_aichan_trigger",
                              set_aichan_trigger(blk, id, direction, 50))]_vars


\* C24: after any sequence of setter calls, successful or failing, the
\* downsampling factor is at least 1, and it is 1 exactly when the
\* downsampling mode is NONE.
C24_DownsamplingFactor ==
    /\ blk.d_downsampling_factor >= 1
    /\ blk.d_downsampling_factor = 1 <=> blk.d_downsampling_mode = "NONE"

\* set_downsampling has failed on a block that decimates
C24_Witness ==
    /\ ctl_op = "set_downsampling" /\ ctl_ret = "throw"
    /\ blk.d_downsampling_mode = "DECIMATE" /\ blk.d_downsampling_factor = 3


(***************************************************************************)
(* Repeated lifecycle calls                                                *)
(***************************************************************************)
\* C25: initialize() on an initialized block does not call
\* driver_initialize, records no error and leaves the state as it is; a
\* failed initialize() leaves the block uninitialized with the driver's
\* error code in the error buffer.
C25_InitializeIdempotent ==
    [][CallInitialize =>
          IF blk.d_initialized
          THEN /\ ctl_log' = <<>> /\ ctl_ret' = "ok"
               /\ blk' = blk
          ELSE /\ ctl_log' = <<"driver_initialize">>
               /\ ctl_ret' = "throw" =>
                     /\ ~blk'.d_initialized
                     /\ blk'.d_errors = Append(blk.d_errors, DriverError)
               /\ ctl_ret' = "ok" =>
                     /\ blk'.d_initialized
                     /\ blk'.d_errors = blk.d_errors]_vars

\* initialize() has returned from an initialized block without a driver call
C25_Witness ==
    /\ ctl_op = "initialize" /\ ctl_ret = "ok" /\ ctl_log = <<>>
    /\ blk.d_initialized

\* C26: disarm() on a block that is not armed does not call driver_disarm,
\* does not change the poller state, records no error and leaves the state
\* as it is.
C26_DisarmUnarmedNoOp ==
    [][(CallDisarm /\ ~blk.d_armed) =>
          /\ ctl_log' = <<>> /\ ctl_ret' = "ok" /\ ctl_pc' = "idle"
          /\ blk' = blk /\ poller' = poller]_vars

\* disarm() has returned from an initialized, unarmed block without a
\* driver call
C26_Witness ==
    /\ ctl_op = "disarm" /\ ctl_pc = "idle" /\ ctl_ret = "ok" /\ ctl_log = <<>>
    /\ blk.d_initialized /\ ~blk.d_armed

\* C27: close() on a block that is not initialized does not call
\* driver_close, records no error and leaves the state as it is.
C27_CloseClosedNoOp ==
    [][(CallClose /\ ~blk.d_initialized) =>
          /\ ctl_log' = <<>> /\ ctl_ret' = "ok"
          /\ blk' = blk]_vars

\* the lost counts the dequeues of a buffer run returned, added up
RECURSIVE SumLost(_)
SumLost(seq) ==
    IF seq = <<>> THEN 0 ELSE Head(seq).lost_count + SumLost(Tail(seq))

\* the chunks pushed between the dequeue before the k-th and the k-th that
\* the consumer never received: the ids the k-th dequeue skipped
Overwritten(k) ==
    drained[k].id - (IF k = 1 THEN 0 ELSE drained[k - 1].id) - 1

\* C28: under any interleaving of push and get_data_chunk, every dequeue's
\* lost count is >= 0 and is the number of chunks overwritten since the
\* dequeue before it, the counter is zero again right after a dequeue, the
\* lost counts add up to no more than the pushes, every push is accounted
\* for as dequeued, lost (reported or still to be reported) or buffered, and
\* with nr_buffers = 4 a first dequeue after six pushes reports 2 and the
\* dequeues after it, with no overflow in between, report 0
C28_LostCountAccounting ==
    LET b == blk.d_app_buffer IN
    /\ \A k \in 1 .. Len(drained) :
          /\ drained[k].lost_count >= 0
          /\ drained[k].lost_count = Overwritten(k)
    /\ (drained # <<>> /\ b.pushed = drained[Len(drained)].id + Len(b.queue)) =>
          b.lost = 0
    /\ SumLost(drained) <= b.pushed
    /\ b.pushed = Len(drained) + (SumLost(drained) + b.lost) + Len(b.queue)
    /\ (b.shape[4] = 4 /\ drained # <<>> /\ drained[1].id = 3) =>
          /\ drained[1].lost_count = 2
          /\ \A k \in 2 .. Len(drained) :
                Overwritten(k) = 0 => drained[k].lost_count = 0

C28_Witness ==
    /\ blk.d_app_buffer.shape[4] = 4
    /\ blk.d_app_buffer.pushed = 6
    /\ Len(drained) = 2
    /\ drained[1] = [id |-> 3, lost_count |-> 2]
    /\ drained[2] = [id |-> 4, lost_count |-> 0]

\* a streaming work() call wakes without error and its get_data_chunk()
\* reports lost chunks
LossyDequeue ==
    /\ WorkStreamWake
    /\ app_buffer_wait_data_ready(blk) = NoError
    /\ blk.d_app_buffer.lost >= 1

\* C29: a streaming work() call whose dequeue reports lost_count >= 1
\* returns buffer_size, attaches the tags the same call attaches when the
\* lost count is 0, and neither disarms, re-arms nor ends the stream
C29_OverflowNonFatal ==
    [][LossyDequeue =>
          LET lossless == [blk EXCEPT !.d_app_buffer.lost = 0]
              same == work(work_stream_chunk(lossless, work_noutput, nitems_written),
                           nitems_written)
          IN /\ work_ret' = [st |-> "returned", n |-> blk.d_buffer_size]
             /\ tags' = tags \o same.newtags
             /\ Len(tags') >= Len(EnabledChannels(blk)) + Len(EnabledPorts(blk))
             /\ nitems_written' = nitems_written + blk.d_buffer_size
             /\ \A k \in 1 .. Len(work_log') :
                   work_log'[k] \notin {"disarm", "arm", "driver_disarm", "driver_arm"}
             /\ blk'.d_armed = blk.d_armed /\ blk'.drv_armed = blk.drv_armed
             /\ blk'.d_poller_state = blk.d_poller_state
             /\ blk'.d_errors = blk.d_errors
             /\ running' = running]_vars

\* a streaming work() call has returned a chunk's samples with tags although
\* the single-chunk buffer had overwritten the chunk before it
C29_Witness ==
    /\ work_pc = "idle" /\ work_ret = [st |-> "returned", n |-> blk.d_buffer_size]
    /\ blk.d_app_buffer.shape[4] = 1
    /\ blk.d_app_buffer.pushed = 2 /\ blk.d_app_buffer.queue = <<>>
    /\ nitems_written = blk.d_buffer_size
    /\ tags # <<>>
    /\ blk.d_armed /\ running

\* a poller iteration in which driver_poll() returns an error
PollFails == PollerIterate /\ blk'.drv_faults > blk.drv_faults

\* a driver error waits in the application buffer's notify channel and the
\* error buffer does not hold it
PollErrorPending(s) ==
    s.d_app_buffer.errc = DriverError /\ DriverError \notin Recorded(s)

\* C30: an error driver_poll() returns while the poller is RUNNING is in the
\* notify channel when the iteration ends, also when the same iteration
\* issues a Watchdog notification, and it leaves the channel only by being
\* recorded in the error buffer, never through another notification such
\* as the clearing one of arm()
C30_PollErrorNotLost ==
    [][/\ PollFails => blk'.d_app_buffer.errc = DriverError
       /\ (PollErrorPending(blk) /\ blk'.d_app_buffer.errc # DriverError) =>
             DriverError \in Recorded(blk')]_vars

\* a streaming work() call that woke with Watchdog ends in this step
WatchdogObserved == StreamWorkEnds /\ work_ec' = Watchdog

\* C31: a Watchdog error the poller has injected stays in the application
\* buffer until a work() call observes it (or start() configures the block
\* anew); that call records Watchdog in the
\* error buffer and makes exactly one disarm() and one arm(); when it returns
\* no Watchdog of the episode is left in the buffer and the poller has
\* acknowledged IDLE, so that nothing of the episode causes a second re-arm
C31_WatchdogEpisodeRearmsOnce ==
    [][/\ (/\ blk.d_app_buffer.errc = Watchdog
           /\ blk'.d_app_buffer.errc # Watchdog
           /\ ~CallStart) =>
             WatchdogObserved
       /\ WatchdogObserved =>
             /\ Watchdog \in Recorded(blk')
             /\ SelectSeq(work_log', LAMBDA c : c \in {"disarm", "arm"}) = <<"disarm", "arm">>
       /\ (WatchdogObserved /\ work_ret'.st = "returned") =>
             /\ blk'.d_app_buffer.errc = NoError
             /\ poller'.state # "RUNNING"]_vars

\* a disarm() call of the control thread on an armed streaming block whose
\* poller thread is running returns in this step
DisarmReturns ==
    /\ CallDisarm \/ DisarmWake
    /\ ctl_op' = "disarm" /\ ctl_pc' = "idle"
    /\ blk.d_armed /\ blk.d_acquisition_mode = "STREAMING" /\ poller.alive

\* the poller thread calls driver_poll() in this step
Polls == PollerIterate /\ poller_read(poller, blk).state = "RUNNING"

\* C32: when disarm() returns in streaming mode with the poller thread
\* running, the poller has acknowledged IDLE, and while the poller state
\* stays IDLE (until an arm() sets it to RUNNING) the poller thread calls
\* driver_poll() no more and injects nothing into the application buffer,
\* although it re-reads the shared state only every tenth iteration
C32_NoPollAfterDisarm ==
    [][/\ DisarmReturns =>
             /\ blk'.d_poller_state = "IDLE" /\ poller'.state = "IDLE"
             /\ ~blk'.d_armed
       /\ (PollerIterate /\ blk.d_poller_state = "IDLE") =>
             /\ ~Polls
             /\ blk'.d_app_buffer = blk.d_app_buffer
             /\ blk'.drv_faults = blk.drv_faults]_vars

\* disarm() has returned after waiting for the poller, and the poller
\* thread has gone through an iteration since
C32_Witness ==
    /\ ctl_op = "disarm" /\ ctl_pc = "idle" /\ ctl_ret = "ok"
    /\ InLog(ctl_log, "driver_disarm")
    /\ blk.d_acquisition_mode = "STREAMING" /\ ~blk.d_armed
    /\ blk.d_poller_state = "IDLE"
    /\ poller.alive /\ poller.state = "IDLE"
    /\ poller.counter = check_every_n_times - 1

\* no driver call has failed and no error has been recorded so far
Unfaulted(s) == s.d_errors = <<>> /\ s.drv_faults = 0

\* C33: a disarm() call that waits for the poller's IDLE acknowledgement
\* returns eventually, whether or not a poller thread is running (stated for
\* the calls made before any driver failure)
C33_DisarmReturns ==
    (ctl_pc = "disarm_wait" /\ ctl_op = "disarm" /\ Unfaulted(blk)) ~> (ctl_pc = "idle")

\* C34: when stop() returns on a started streaming block, after joining the
\* poller thread, the poller state is EXIT, the poller thread has terminated
\* and the block is not armed, whatever the scheduler thread did meanwhile
C34_StopLeavesPollerExited ==
    [][StopJoin =>
          /\ blk'.d_poller_state = "EXIT"
          /\ ~poller'.alive
          /\ ~blk'.d_armed]_vars

\* the offsets of the Trigger tags among ts, relative to the offset nw
TriggerOffsets(ts, nw) ==
    {ts[k].offset - nw : k \in {j \in 1 .. Len(ts) : ts[j].kind = "trigger"}}

\* C35: a streaming work() call that returns a chunk attaches its Trigger
\* tags at the offsets the detector finds in the samples written to output
\* 2 * i for an analog trigger on channel i, whichever channels before i are
\* enabled, and in bit p mod 8 of the samples of port p / 8 for a digital
\* trigger on pin p
C35_DetectorReadsTriggerSlot ==
    [][StreamChunkReturn =>
          LET t == blk.d_trigger_settings
              out == output_items(blk, Head(blk.d_app_buffer.queue))
              i == convert_to_aichan_idx(t.source)
              port == t.pin_number \div 8
              n == blk.d_buffer_size
              found ==
                  IF is_analog(t)
                  THEN find_analog_triggers(blk, SubSeq(out[2 * i], 1, n))[1]
                  ELSE IF is_digital(t)
                       THEN find_digital_triggers(blk,
                                [j \in 1 .. n |->
                                   BitSet(out[2 * d_ai_channels + port][j],
                                          t.pin_number % 8)])[1]
                       ELSE <<>>
          IN TriggerOffsets(tags', nitems_written) =
                 {found[k] : k \in 1 .. Len(found)}]_vars

\* C36: in rapid-block mode a notification that carries an error stays in
\* the data-ready condition until a wait_data_ready() of work() has returned
\* it: between the notifications of the driver and of stop() and work()'s
\* wait_data_ready() and clear_data_ready(), it is neither replaced by
\* another notification nor erased by the clear_data_ready() of a wait that
\* returned something else
C36_NoNotificationLost ==
    [][(/\ blk.d_data_rdy_errc # NoError
        /\ blk'.d_data_rdy_errc # blk.d_data_rdy_errc
        /\ ~CallStart) =>
          /\ work_pc = "rb_clear"
          /\ work_ec = blk.d_data_rdy_errc]_vars

\* C37: whenever no lifecycle call is in progress, the poller state is
\* RUNNING only if the block is armed and the acquisition mode is STREAMING
C37_RunningOnlyArmedStreaming ==
    ctl_pc = "idle" =>
        (blk.d_poller_state = "RUNNING" =>
            blk.d_armed /\ blk.d_acquisition_mode = "STREAMING")

\* the setter op returns normally in this step
SetterSucceeds(op) ==
    nset' = nset + 1 /\ ctl_op' = op /\ ctl_ret' = "ok"

\* C38: a successful setter changes only the fields it names: set_samples
\* the post- and pre-trigger sample counts and not buffer_size,
\* set_streaming the acquisition mode and the poll rate and not
\* nr_captures, set_nr_buffers only nr_buffers
C38_SettersChangeNamedFieldsOnly ==
    [][/\ SetterSucceeds("set_samples") =>
             blk' = [blk EXCEPT !.d_samples = blk'.d_samples,
                                !.d_pre_samples = blk'.d_pre_samples]
       /\ SetterSucceeds("set_streaming") =>
             blk' = [blk EXCEPT !.d_acquisition_mode = blk'.d_acquisition_mode,
                                !.d_poll_rate = blk'.d_poll_rate]
       /\ SetterSucceeds("set_nr_buffers") =>
             blk' = [blk EXCEPT !.d_nr_buffers = blk'.d_nr_buffers]]_vars

\* C39: every tag attached during a work() call that returns n > 0 has its
\* offset among the samples the call produced, from the output offset
\* before the call up to, and not including, that offset plus n
C39_TagsInsideProducedRange ==
    [][nitems_written' > nitems_written =>
          \A k \in 1 .. Len(tags') :
              /\ nitems_written <= tags'[k].offset
              /\ tags'[k].offset < nitems_written']_vars

\* an arm() call of the control thread fails in this step: arm() throws only
\* when driver_arm() returns an error
ArmFails == CallArm /\ ctl_ret' = "throw"

\* a rapid-block work() call with auto_arm has called arm() in this step
\* and driver_arm() has failed: the device is not armed after the call
WorkArmFails ==
    /\ WorkRapidBlockCall
    /\ InLog(work_log', "driver_arm")
    /\ ~blk'.drv_armed

\* what a failed arm() leaves: the error code recorded last in the error
\* buffer, the block not armed, the poller state and the
\* timebase-published flag as they were
ArmFailureLeaves ==
    /\ Len(blk'.d_errors) > Len(blk.d_errors)
    /\ SubSeq(blk'.d_errors, 1, Len(blk.d_errors)) = blk.d_errors
    /\ blk'.d_errors[Len(blk'.d_errors)] = DriverError
    /\ ~blk'.d_armed
    /\ blk'.d_poller_state = blk.d_poller_state
    /\ blk'.d_timebase_published = blk.d_timebase_published

\* C40: when driver_arm() fails inside arm(), the error code is recorded in
\* the error buffer, the block stays not armed, the poller is not switched
\* to RUNNING and the timebase-published flag is not reset; in rapid-block
\* mode with auto_arm the work() call that made the arm() returns -1
C40_ArmFailure ==
    [][/\ ArmFails => ArmFailureLeaves
       /\ WorkArmFails =>
             /\ ArmFailureLeaves
             /\ work_ret' = [st |-> "returned", n |-> -1]
             /\ work_pc' = "idle"]_vars

\* a rapid-block work() call with auto_arm has returned -1 after its arm()
\* failed, on a block whose timebase had been published
C40_Witness ==
    /\ blk.d_acquisition_mode = "RAPID_BLOCK" /\ blk.d_auto_arm
    /\ work_pc = "idle" /\ work_ret = [st |-> "returned", n |-> -1]
    /\ InLog(work_log, "driver_arm")
    /\ ~blk.d_armed
    /\ DriverError \in Recorded(blk)
    /\ blk.d_timebase_published

====
